---------------------------- MODULE Spec2Model ----------------------------
(***************************************************************************)
(* Model of the battery-data-toolkit post-processing pipeline              *)
(* (battdat.postprocess): step segmentation, control-method labelling,     *)
(* row-level integration and per-cycle capacity summaries.                 *)
(*                                                                         *)
(* A table is a sequence of rows; a row is a function from column names    *)
(* to values. The default RangeIndex of a pandas frame is the position of  *)
(* the row (1-based here, 0-based in the source). Floating point values    *)
(* are integers: test_time in seconds, current in A, voltage in V. The     *)
(* inputs of the integration are drawn so that every trapezoid and every   *)
(* unit conversion is exact in integers.                                   *)
(***************************************************************************)
EXTENDS Integers, Sequences, FiniteSets, TLC

VARIABLES
    raw_data,      \* data.tables['raw_data']: sequence of rows
    columns,       \* names of the derived columns raw_data holds
    tables,        \* the keys of data.tables
    cycle_stats,   \* data.tables['cycle_stats'] (empty while it is not a key)
    summarizer,    \* the CapacityPerCycle last built: [reuse_integrals |-> ...]
    coulombic_efficiency,  \* of the StateOfCharge last built, a fraction <<p, q>>
    add_state,     \* the AddState at hand: [rest_curr_threshold |-> ...]
    sub_segments,  \* what the curvature peaks and the deviation ratios of
                   \* this table's current and voltage come to (see AddMethod)
    warnings,      \* the warnings the operation that ran last gave, in order
    log,           \* the messages it gave to its logger, in order
    last_op,       \* the operation that ran last
    schema,        \* a ColumnSchema: [fields |-> ..., extra_columns |-> ...]
    dataframe,     \* the data frame last given to validate_dataframe
    validation,    \* how that call ended: [allow_extra_columns, error]
    parsed,        \* the schema last read with from_json
    writer,        \* an HDF5Writer: its fields and where its context stands
    store,         \* the raw_data table of the HDF5 file
    returned,      \* how the last call on the writer ended
    context,       \* the rows given to write_row since __enter__, and the
                   \* number of rows the table held at __enter__
    reader,        \* the arguments of iterate_cycles_from_file
    frames         \* what the iterator gave: the frames it yielded, in order

dataset_vars == <<raw_data, columns, tables, cycle_stats, summarizer,
                  coulombic_efficiency, add_state, sub_segments, warnings, log>>

schema_vars == <<schema, dataframe, validation, parsed>>

stream_vars == <<writer, store, returned, context, reader, frames>>

vars == <<dataset_vars, last_op, schema_vars, stream_vars>>

-----------------------------------------------------------------------------
(* Bounds of the model *)

MaxTagRows == 5      \* longest table of the tagging specifications
MaxRows == 4         \* longest table of the integration specifications
MaxStateRows == 4    \* longest table of StateSpec
MaxWideRows == 5     \* longest table of AmbiguousSpec
MaxPipelineRows == 3 \* longest table of PipelineSpec
MaxBufferSize == 3   \* largest buffer_size of an HDF5Writer
MaxWrites == 4       \* most calls of write_row in a run
MaxRatioRows == 5    \* longest table of RatioSpec
MaxConventionRows == 3   \* longest table of ConventionSpec
MaxStoredRows == 5   \* longest stored table of ReaderSpec
MaxChunkSize == 6    \* largest chunk in which a stored table is read

CycleNumbers == {0, 1}          \* cycle numbers of the tagging tables
SparseCycleNumbers == {0, 1, 3} \* cycle numbers of the CycleSpec tables
Currents == {-2, 0, 2}          \* currents of the integration tables, A
WideCurrents == {100, -498, -502}   \* currents of the AmbiguousSpec tables, A
VoltageProfiles == {<<1, 2>>, <<2, 1>>}   \* voltage of odd and even rows, V
IntegrationSteps == {7200}      \* sampling periods of the integration tables, s
CoulombicEfficiencies == {<<1, 2>>, <<1, 1>>}   \* as fractions
SampleSteps == {6, 10}          \* sampling periods of the MethodSpec tables, s
TagSampleSteps == {10}          \* sampling periods of the TagSpec tables, s
ConventionCurrents == {-4, -2, 0, 2, 4}   \* currents of the ConventionSpec tables
RestThresholds == {0, 2, 4}         \* rest_curr_threshold of an AddState, same unit
RatioCurrents == {0, 1, 4}          \* currents of the RatioSpec tables, A
RatioVoltageProfiles == {"flat", "alternating", "falling"}   \* their voltages
StateCurrents == {-2, -1, 0, 1, 2}   \* currents of the StateSpec tables, 0.1 mA
MaxExtraColumns == 2                 \* most entries of extra_columns
ExtraNames == {"extra", "test_time"} \* names given to add_column
ExtraTypes == {"float", "control", "other"} \* data types given to add_column

-----------------------------------------------------------------------------
(* Enumerations of battdat.schemas.column *)

ChargingState == {"charging", "resting", "discharging", "unknown"}

ControlMethod == {"short_rest", "rest", "short_nonrest", "pulse",
                  "constant_current", "constant_voltage", "constant_power",
                  "unknown", "other"}

SubSegmentMethods == {"constant_voltage", "constant_current", "other"}

short_period_threshold == 30
MinPoints == 5
PeakDistance == 5
rest_curr_threshold == 1   \* AddState's default, 1.0e-04 A, in units of 0.1 mA

-----------------------------------------------------------------------------
(* Helpers on tables *)

NaN == {}
Num(v) == {v}
IsNaN(x) == x = NaN
Value(x) == CHOOSE v \in x : TRUE

Min(S) == CHOOSE m \in S : \A x \in S : m <= x
Max(S) == CHOOSE m \in S : \A x \in S : m >= x

Rows(df) == 1..Len(df)

\* df.loc[:, col] = values: add or overwrite one column
SetColumn(df, col, values) ==
    [i \in Rows(df) |->
        [c \in DOMAIN df[i] \cup {col} |-> IF c = col THEN values[i] ELSE df[i][c]]]

\* the rows of one group of a groupby, in the order of the table
RECURSIVE SortedSeq(_)
SortedSeq(S) ==
    IF S = {} THEN <<>> ELSE <<Min(S)>> \o SortedSeq(S \ {Min(S)})

NonDecreasingCycles(df) ==
    \A i \in Rows(df) : i > 1 => df[i-1].cycle_number <= df[i].cycle_number

-----------------------------------------------------------------------------
(* tagging._determine_steps *)

\* df[column].ne(df[column].shift(periods=1, fill_value=df[column].iloc[0]))
Change(df, column) ==
    [i \in Rows(df) |-> IF i = 1 THEN FALSE ELSE df[i][column] /= df[i-1][column]]

RECURSIVE CumSum(_, _)
CumSum(change, i) ==
    IF i = 0 THEN 0 ELSE CumSum(change, i - 1) + (IF change[i] THEN 1 ELSE 0)

\* the rows of the group of df.groupby("cycle_number") that holds row i
CycleGroup(df, i) == {j \in Rows(df) : df[j].cycle_number = df[i].cycle_number}

\* faulty variant: the running count is left as it is, no per-cycle reset
StepsWithoutReset(df, column) ==
    [i \in Rows(df) |-> CumSum(Change(df, column), i)]

\* faulty variant: change.cumsum() is forgotten, the change flag itself is stored
StepsWithoutCumSum(df, column) ==
    LET total == [i \in Rows(df) |-> IF Change(df, column)[i] THEN 1 ELSE 0]
    IN  [i \in Rows(df) |->
            total[i] - Min({total[j] : j \in CycleGroup(df, i)})]

\* the values _determine_steps leaves in output_col
StepIndices(df, column) ==
    LET total == [i \in Rows(df) |-> CumSum(Change(df, column), i)]
    IN  [i \in Rows(df) |->
            total[i] - Min({total[j] : j \in CycleGroup(df, i)})]

DetermineSteps(df, column, output_col) ==
    SetColumn(df, output_col, StepIndices(df, column))

-----------------------------------------------------------------------------
(* tagging._determine_state *)

Abs(x) == IF x < 0 THEN -x ELSE x

\* faulty variant: a current below 0 is a charge
DetermineStateReversed(row, zero_threshold) ==
    IF Abs(row.current) <= zero_threshold THEN "resting"
    ELSE IF row.current < 0 THEN "charging"
    ELSE "discharging"

\* faulty variant: a current of the threshold itself is not a rest
DetermineStateBelowThreshold(row, zero_threshold) ==
    IF Abs(row.current) < zero_threshold THEN "resting"
    ELSE IF row.current > 0 THEN "charging"
    ELSE "discharging"

\* _determine_state(row, zero_threshold)
DetermineState(row, zero_threshold) ==
    IF Abs(row.current) <= zero_threshold THEN "resting"
    ELSE IF row.current > 0 THEN "charging"
    ELSE "discharging"

-----------------------------------------------------------------------------
(* tagging.AddMethod.enhance *)

\* the rows of the (cycle_number, step_index) group that holds row i
StepGroup(df, i) ==
    {j \in Rows(df) : /\ df[j].cycle_number = df[i].cycle_number
                      /\ df[j].step_index = df[i].step_index}

GroupFirst(df, i) == Min(StepGroup(df, i))
GroupLast(df, i) == Max(StepGroup(df, i))
GroupDuration(df, i) ==
    df[GroupLast(df, i)].test_time - df[GroupFirst(df, i)].test_time
GroupSize(df, i) == Cardinality(StepGroup(df, i))
GroupState(df, i) == df[GroupFirst(df, i)].state

\* faulty variant: the point count is tested before the rest state
WholeGroupMethodCountFirst(d, n, state) ==
    IF d < short_period_threshold
    THEN IF n < MinPoints THEN "short_nonrest"
         ELSE IF state = "resting" THEN "short_rest"
         ELSE "pulse"
    ELSE IF state = "resting" THEN "rest"
    ELSE IF n < MinPoints THEN "unknown"
    ELSE "segmented"

\* faulty variant: a long rest is given the value of ChargingState.rest
WholeGroupMethodStateValue(d, n, state) ==
    IF d < short_period_threshold
    THEN IF state = "resting" THEN "short_rest"
         ELSE IF n < MinPoints THEN "short_nonrest"
         ELSE "pulse"
    ELSE IF state = "resting" THEN "resting"
    ELSE IF n < MinPoints THEN "unknown"
    ELSE "segmented"

\* the branch of the decision procedure taken for a group of n rows lasting
\* d seconds whose first row has the given state; "segmented" stands for
\* the else branch, which labels sub-segments
WholeGroupMethod(d, n, state) ==
    IF d < short_period_threshold
    THEN IF state = "resting" THEN "short_rest"
         ELSE IF n < MinPoints THEN "short_nonrest"
         ELSE "pulse"
    ELSE IF state = "resting" THEN "rest"
    ELSE IF n < MinPoints THEN "unknown"
    ELSE "segmented"

GroupMethod(df, i) ==
    WholeGroupMethod(GroupDuration(df, i), GroupSize(df, i), GroupState(df, i))

\* rows of the groups that reach the sub-segmentation
SegmentedRows(df) == {i \in Rows(df) : GroupMethod(df, i) = "segmented"}

\* scipy.signal.find_peaks(x, distance=5, ...): positions that are neither
\* the first nor the last sample of their group, at least 5 samples apart.
\* Which of them are peaks depends on the smoothed second derivative of
\* the signal, which is not modelled: any such set may come out.
PositionInGroup(df, i) == Cardinality({j \in StepGroup(df, i) : j < i})

PossiblePeaks(df, P) ==
    /\ \A i \in P : i /= GroupFirst(df, i) /\ i /= GroupLast(df, i)
    /\ \A i, j \in P :
          (i /= j /\ j \in StepGroup(df, i)) =>
              \/ PositionInGroup(df, i) - PositionInGroup(df, j) >= PeakDistance
              \/ PositionInGroup(df, j) - PositionInGroup(df, i) >= PeakDistance

\* set(current_peaks).union(set(voltage_peaks)): the peaks of two signals
PossibleExtrema(df, P) ==
    \E current_peaks \in SUBSET P :
        /\ PossiblePeaks(df, current_peaks)
        /\ PossiblePeaks(df, P \ current_peaks)

\* every outcome of the peak search and of the labelling of sub-segments on
\* a table, once its steps are assigned
SubSegmentOutcomes(table) ==
    LET df == DetermineSteps(table, "state", "step_index")
        segmented == SegmentedRows(df)
        firsts == {i \in segmented : i = GroupFirst(df, i)}
    IN  UNION {{[extrema |-> P, label |-> L] : L \in [firsts \cup P -> SubSegmentMethods]} :
                  P \in {Q \in SUBSET (segmented \ firsts) : PossibleExtrema(df, Q)}}

\* extrema = [0] + sorted(current_peaks | voltage_peaks) + [len(voltage)] :
\* row i opens a sub-segment when it is the first of its group or a peak
SegmentStart(df, peaks, i) ==
    Max({j \in StepGroup(df, i) : j <= i /\ (j = GroupFirst(df, i) \/ j \in peaks)})

\* ind, the rows of the group of row i in the order of the table
GroupRows(df, i) == SortedSeq(StepGroup(df, i))

\* faulty variant: the closing boundary len(voltage) is left out
ExtremaWithoutEnd(df, peaks, i) ==
    <<0>> \o SortedSeq({PositionInGroup(df, p) : p \in peaks \cap StepGroup(df, i)})

\* extrema = [0] + sorted(set(current_peaks).union(set(voltage_peaks)))
\*           + [len(voltage)], as positions within the group of row i
Extrema(df, peaks, i) ==
    <<0>> \o SortedSeq({PositionInGroup(df, p) : p \in peaks \cap StepGroup(df, i)})
          \o <<GroupSize(df, i)>>

\* methods after the first k turns of the loop over the sub-segments:
\* methods.extend([method] * len(np.arange(low, high)))
RECURSIVE SegmentMethods(_, _, _, _)
SegmentMethods(extrema, ind, seglabel, k) ==
    IF k = 0 THEN <<>>
    ELSE LET low == extrema[k]
             high == extrema[k + 1]
             method == seglabel[ind[low + 1]]
         IN  SegmentMethods(extrema, ind, seglabel, k - 1)
                \o [j \in 1..(high - low) |-> method]

\* the list methods once the loop is over
Methods(df, peaks, seglabel, i) ==
    LET extrema == Extrema(df, peaks, i)
    IN  SegmentMethods(extrema, GroupRows(df, i), seglabel, Len(extrema) - 1)

\* assert len(methods) == len(ind) fails on the group of row i
AssertionFails(df, peaks, seglabel, i) ==
    /\ GroupMethod(df, i) = "segmented"
    /\ Len(Methods(df, peaks, seglabel, i)) /= GroupSize(df, i)

\* the group of row j comes no later than the group of row i in
\* df.groupby(["cycle_number", "step_index"]), which goes by sorted key
GroupNotAfter(df, j, i) ==
    \/ df[j].cycle_number < df[i].cycle_number
    \/ /\ df[j].cycle_number = df[i].cycle_number
       /\ df[j].step_index <= df[i].step_index

\* the rows of the groups the assertion fails on
FailingRows(df, peaks, seglabel) ==
    {j \in Rows(df) : AssertionFails(df, peaks, seglabel, j)}

\* whether enhance stops on the assertion
Raises(df, peaks, seglabel) == FailingRows(df, peaks, seglabel) /= {}

\* the method column AddMethod.enhance leaves, given the peaks found and
\* the label the ratio of deviations gives to each sub-segment; every row
\* starts as other, and the groups from the one the assertion stops on
\* keep it
MethodColumn(df, peaks, seglabel) ==
    LET failing == FailingRows(df, peaks, seglabel)
    IN  [i \in Rows(df) |->
            LET whole == GroupMethod(df, i)
            IN  IF \E j \in failing : GroupNotAfter(df, j, i) THEN "other"
                ELSE IF whole = "segmented"
                THEN Methods(df, peaks, seglabel, i)[PositionInGroup(df, i) + 1]
                ELSE whole]

\* the rows of the sub-segment that the row start opens: r = np.arange(low,
\* high), as rows of the table
SubSegmentRows(df, peaks, start) ==
    {j \in StepGroup(df, start) : SegmentStart(df, peaks, j) = start}

\* x -= x.min(); x /= max(x.max(), 1e-6) over the group of row i: the
\* values of column col of the group lie max - min apart; a column that
\* does not vary in the group is 0 everywhere after the two steps
GroupSpread(df, col, i) ==
    Max({df[j][col] : j \in StepGroup(df, i)}) - Min({df[j][col] : j \in StepGroup(df, i)})

\* n * sum(x^2) - sum(x)^2 over the rows of a set, which is n^2 times the
\* square of x[r].std()
RECURSIVE SumOver(_, _, _)
SumOver(df, col, rows) ==
    IF rows = {} THEN 0
    ELSE LET j == Min(rows)
         IN  df[j][col] + SumOver(df, col, rows \ {j})

RECURSIVE SumSquaresOver(_, _, _)
SumSquaresOver(df, col, rows) ==
    IF rows = {} THEN 0
    ELSE LET j == Min(rows)
         IN  df[j][col] * df[j][col] + SumSquaresOver(df, col, rows \ {j})

\* the square of the standard deviation of the normalized column over the
\* rows of a sub-segment, times the square of the number of rows, as a
\* fraction: the shift by the minimum leaves it alone, the division by the
\* spread of the group divides it by the square of the spread
SquaredDeviation(df, col, rows) ==
    LET spread == GroupSpread(df, col, Min(rows))
    IN  IF spread = 0 THEN <<0, 1>>
        ELSE <<Cardinality(rows) * SumSquaresOver(df, col, rows)
                   - SumOver(df, col, rows) * SumOver(df, col, rows),
               spread * spread>>

\* faulty variant: val = s_i / (s_i + s_v), which is not a number when
\* neither column varies, so that neither comparison holds
RatioMethodWithoutFloor(s_i2, s_v2) ==
    IF s_i2[1] = 0 /\ s_v2[1] = 0 THEN "other"
    ELSE IF 34 * 34 * s_i2[1] * s_v2[2] > 66 * 66 * s_v2[1] * s_i2[2]
    THEN "constant_voltage"
    ELSE IF 67 * 67 * s_i2[1] * s_v2[2] < 33 * 33 * s_v2[1] * s_i2[2]
    THEN "constant_current"
    ELSE "other"

\* val = s_i / max(s_i + s_v, 1e-6) against 0.66 and 0.33, given the
\* squares of s_i and s_v as fractions: val > 0.66 is 34 s_i > 66 s_v and
\* val < 0.33 is 67 s_i < 33 s_v, both sides being 0 or positive; when
\* neither column varies val = 0 / 1e-6 = 0
RatioMethod(s_i2, s_v2) ==
    IF s_i2[1] = 0 /\ s_v2[1] = 0 THEN "constant_current"
    ELSE IF 34 * 34 * s_i2[1] * s_v2[2] > 66 * 66 * s_v2[1] * s_i2[2]
    THEN "constant_voltage"
    ELSE IF 67 * 67 * s_i2[1] * s_v2[2] < 33 * 33 * s_v2[1] * s_i2[2]
    THEN "constant_current"
    ELSE "other"

\* the label the ratio gives to each sub-segment of the table, by the row
\* that opens it
RatioLabels(df, peaks) ==
    LET segmented == SegmentedRows(df)
        firsts == {i \in segmented : i = GroupFirst(df, i)}
    IN  [start \in firsts \cup peaks |->
            LET r == SubSegmentRows(df, peaks, start)
            IN  RatioMethod(SquaredDeviation(df, "current", r),
                            SquaredDeviation(df, "voltage", r))]

\* the peak search may give any admissible set of peaks; the labels are
\* those of the ratio
RatioOutcomes(table) ==
    LET df == DetermineSteps(table, "state", "step_index")
        segmented == SegmentedRows(df)
        firsts == {i \in segmented : i = GroupFirst(df, i)}
    IN  {[extrema |-> P, label |-> RatioLabels(df, P)] :
            P \in {Q \in SUBSET (segmented \ firsts) : PossibleExtrema(df, Q)}}

-----------------------------------------------------------------------------
(* postprocess.integral: the ranges of the cycles and the integrals *)

\* faulty variant: drop_duplicates(..., keep='last')
CycleStartsKeepLast(df) ==
    SortedSeq({i \in Rows(df) :
                  \A j \in (i+1)..Len(df) : df[j].cycle_number /= df[i].cycle_number})

\* raw_data.drop_duplicates('cycle_number', keep='first').index: for each
\* distinct cycle number, in order of appearance, the row it first appears at
CycleStarts(df) ==
    SortedSeq({i \in Rows(df) :
                  \A j \in 1..(i-1) : df[j].cycle_number /= df[i].cycle_number})

\* faulty variant: the range of a cycle ends with its own last row
CycleSubsetOwnRows(df, k, fillvalue) ==
    LET starts == CycleStarts(df)
        start_ind == starts[k] - 1
        stop_ind == IF k < Len(starts) THEN starts[k+1] - 1 ELSE fillvalue
    IN  SortedSeq({i \in Rows(df) : start_ind <= i - 1 /\ i - 1 < stop_ind})

\* the rows of raw_data.iloc[start_ind:stop_ind] for the k-th pair of
\* zip_longest(start_inds, start_inds[1:] + 1, fillvalue=fillvalue);
\* start_ind and stop_ind count rows from 0, row i here is row i-1 there
CycleSubset(df, k, fillvalue) ==
    LET starts == CycleStarts(df)
        start_ind == starts[k] - 1
        stop_ind == IF k < Len(starts) THEN (starts[k+1] - 1) + 1 ELSE fillvalue
    IN  SortedSeq({i \in Rows(df) : start_ind <= i - 1 /\ i - 1 < stop_ind})

ColumnOf(df, subset, col) == [j \in 1..Len(subset) |-> df[subset[j]][col]]

RECURSIVE TrapezoidSum(_, _, _)
TrapezoidSum(y, x, i) ==
    IF i = 0 THEN 0
    ELSE TrapezoidSum(y, x, i - 1) + ((x[i+1] - x[i]) * (y[i+1] + y[i])) \div 2

\* scipy.integrate.cumulative_trapezoid(y, x=x): one entry less than y
CumulativeTrapezoid(y, x) ==
    [i \in 1..(Len(y) - 1) |-> TrapezoidSum(y, x, i)]

\* scipy.integrate.cumulative_trapezoid(y, x=x, initial=0)
CumulativeTrapezoidFromZero(y, x) == <<0>> \o CumulativeTrapezoid(y, x)

SeqMax(s) == Max({s[j] : j \in DOMAIN s})
SeqMin(s) == Min({s[j] : j \in DOMAIN s})

Power(df, subset) ==
    [j \in 1..Len(subset) |-> df[subset[j]].current * df[subset[j]].voltage]

-----------------------------------------------------------------------------
(* integral.StateOfCharge *)

\* faulty variant: every sample is scaled, the discharging ones too
CEAdjustedAllSamples(current, ce) == (current * ce[1]) \div ce[2]

\* _get_CE_adjusted_curr for one sample; the efficiency is the fraction
\* ce[1] / ce[2]
CEAdjustedCurrent(current, ce) ==
    IF current > 0 THEN (current * ce[1]) \div ce[2] ELSE current

\* data.loc[cycle_subset['index'], col] = values
SetRows(df, subset, col, values) ==
    [i \in Rows(df) |->
        IF \E j \in 1..Len(subset) : subset[j] = i
        THEN [df[i] EXCEPT ![col] =
                 Num(values[CHOOSE j \in 1..Len(subset) : subset[j] = i])]
        ELSE df[i]]

ToHours(values) == [j \in DOMAIN values |-> values[j] \div 3600]

\* one turn of the loop of StateOfCharge.enhance
StateOfChargePass(df, ce, k) ==
    LET cycle_subset == CycleSubset(df, k, Len(df) + 1)
        current == ColumnOf(df, cycle_subset, "current")
        test_time == ColumnOf(df, cycle_subset, "test_time")
        ce_adj_curr == [j \in DOMAIN current |-> CEAdjustedCurrent(current[j], ce)]
        capacity_change == CumulativeTrapezoidFromZero(current, test_time)
        ce_charge == CumulativeTrapezoidFromZero(ce_adj_curr, test_time)
        energy_change == CumulativeTrapezoidFromZero(Power(df, cycle_subset), test_time)
        d1 == SetRows(df, cycle_subset, "cycled_charge", ToHours(capacity_change))
        d2 == SetRows(d1, cycle_subset, "CE_charge", ToHours(ce_charge))
    IN  SetRows(d2, cycle_subset, "cycled_energy", ToHours(energy_change))

\* faulty variant: the cycles are gone through from the last to the first
RECURSIVE StateOfChargePassesReversed(_, _, _)
StateOfChargePassesReversed(df, ce, k) ==
    IF k > Len(CycleStarts(df)) THEN df
    ELSE StateOfChargePass(StateOfChargePassesReversed(df, ce, k + 1), ce, k)

\* the loop of StateOfCharge.enhance from its k-th turn on
RECURSIVE StateOfChargePasses(_, _, _)
StateOfChargePasses(df, ce, k) ==
    IF k > Len(CycleStarts(df)) THEN df
    ELSE StateOfChargePasses(StateOfChargePass(df, ce, k), ce, k + 1)

\* faulty variant: the adjusted current is written over the current column
StateOfChargeEnhanceScalesCurrent(df, ce) ==
    LET d1 == SetColumn(df, "cycled_charge", [i \in Rows(df) |-> NaN])
        d2 == SetColumn(d1, "cycled_energy", [i \in Rows(df) |-> NaN])
        d3 == SetColumn(d2, "CE_charge", [i \in Rows(df) |-> NaN])
    IN  SetColumn(StateOfChargePasses(d3, ce, 1), "current",
                  [i \in Rows(df) |-> CEAdjustedCurrent(df[i].current, ce)])

\* StateOfCharge.enhance: the table it leaves
StateOfChargeEnhance(df, ce) ==
    LET d1 == SetColumn(df, "cycled_charge", [i \in Rows(df) |-> NaN])
        d2 == SetColumn(d1, "cycled_energy", [i \in Rows(df) |-> NaN])
        d3 == SetColumn(d2, "CE_charge", [i \in Rows(df) |-> NaN])
    IN  StateOfChargePasses(d3, ce, 1)

-----------------------------------------------------------------------------
(* integral.CapacityPerCycle and base.CycleSummarizer *)

column_names == <<"energy_charge", "capacity_charge", "energy_discharge",
                  "capacity_discharge", "max_cycled_capacity">>

\* cycle_data.loc[label, col] = value: the row with that index label is
\* written; when no row has it, pandas appends a row with that label whose
\* other columns are NaN
LocSet(cycle_data, label, col, value) ==
    IF \E i \in Rows(cycle_data) : cycle_data[i].index = label
    THEN [i \in Rows(cycle_data) |->
            IF cycle_data[i].index = label
            THEN [cycle_data[i] EXCEPT ![col] = Num(value)]
            ELSE cycle_data[i]]
    ELSE Append(cycle_data,
                [c \in {"index", "cycle_number"} \cup {column_names[j] : j \in 1..5} |->
                    IF c = "index" THEN label
                    ELSE IF c = col THEN Num(value) ELSE NaN])

\* whether the integrals of StateOfCharge are taken over
ReusesIntegrals(cols, reuse_integrals) ==
    reuse_integrals /\ "cycled_energy" \in cols /\ "cycled_charge" \in cols

\* capacity_change of the k-th cycle, in A-s
CapacityChange(df, cols, reuse_integrals, k) ==
    LET cycle_subset == CycleSubset(df, k, Len(df))
    IN  IF ReusesIntegrals(cols, reuse_integrals)
        THEN [j \in 1..Len(cycle_subset) |-> Value(df[cycle_subset[j]].cycled_charge) * 3600]
        ELSE CumulativeTrapezoid(ColumnOf(df, cycle_subset, "current"),
                                 ColumnOf(df, cycle_subset, "test_time"))

\* energy_change of the k-th cycle, in J
EnergyChange(df, cols, reuse_integrals, k) ==
    LET cycle_subset == CycleSubset(df, k, Len(df))
    IN  IF ReusesIntegrals(cols, reuse_integrals)
        THEN [j \in 1..Len(cycle_subset) |-> Value(df[cycle_subset[j]].cycled_energy) * 3600]
        ELSE CumulativeTrapezoid(Power(df, cycle_subset),
                                 ColumnOf(df, cycle_subset, "test_time"))

\* faulty variant: a tie of max_discharge and max_charge counts as starting charged
CycleSummaryTieCharged(capacity_change, energy_change) ==
    LET max_charge == SeqMax(capacity_change)
        max_discharge == -SeqMin(capacity_change)
        starts_charged == max_discharge >= max_charge
        last_cap == capacity_change[Len(capacity_change)]
        last_eng == energy_change[Len(energy_change)]
        discharge_cap == IF starts_charged THEN max_discharge ELSE max_charge - last_cap
        charge_cap == IF starts_charged THEN last_cap + max_discharge ELSE max_charge
        discharge_eng == IF starts_charged THEN -SeqMin(energy_change)
                         ELSE SeqMax(energy_change) - last_eng
        charge_eng == IF starts_charged THEN last_eng + discharge_eng
                      ELSE SeqMax(energy_change)
    IN  [max_cycled_capacity |-> (max_charge + max_discharge) \div 3600,
         energy_charge |-> charge_eng \div 3600,
         energy_discharge |-> discharge_eng \div 3600,
         capacity_charge |-> charge_cap \div 3600,
         capacity_discharge |-> discharge_cap \div 3600]

\* faulty variant: a cycle that starts discharged reports max_discharge as its
\* discharge capacity
CycleSummaryMaxDischarge(capacity_change, energy_change) ==
    LET max_charge == SeqMax(capacity_change)
        max_discharge == -SeqMin(capacity_change)
        starts_charged == max_discharge > max_charge
        last_cap == capacity_change[Len(capacity_change)]
        last_eng == energy_change[Len(energy_change)]
        discharge_cap == max_discharge
        charge_cap == IF starts_charged THEN last_cap + max_discharge ELSE max_charge
        discharge_eng == IF starts_charged THEN -SeqMin(energy_change)
                         ELSE SeqMax(energy_change) - last_eng
        charge_eng == IF starts_charged THEN last_eng + discharge_eng
                      ELSE SeqMax(energy_change)
    IN  [max_cycled_capacity |-> (max_charge + max_discharge) \div 3600,
         energy_charge |-> charge_eng \div 3600,
         energy_discharge |-> discharge_eng \div 3600,
         capacity_charge |-> charge_cap \div 3600,
         capacity_discharge |-> discharge_cap \div 3600]

\* faulty variant: max_cycled_capacity is the sum of the two capacities
CycleSummarySumCapacity(capacity_change, energy_change) ==
    LET max_charge == SeqMax(capacity_change)
        max_discharge == -SeqMin(capacity_change)
        starts_charged == max_discharge > max_charge
        last_cap == capacity_change[Len(capacity_change)]
        last_eng == energy_change[Len(energy_change)]
        discharge_cap == IF starts_charged THEN max_discharge ELSE max_charge - last_cap
        charge_cap == IF starts_charged THEN last_cap + max_discharge ELSE max_charge
        discharge_eng == IF starts_charged THEN -SeqMin(energy_change)
                         ELSE SeqMax(energy_change) - last_eng
        charge_eng == IF starts_charged THEN last_eng + discharge_eng
                      ELSE SeqMax(energy_change)
    IN  [max_cycled_capacity |-> (charge_cap + discharge_cap) \div 3600,
         energy_charge |-> charge_eng \div 3600,
         energy_discharge |-> discharge_eng \div 3600,
         capacity_charge |-> charge_cap \div 3600,
         capacity_discharge |-> discharge_cap \div 3600]

\* faulty variant: every cycle is taken to start discharged
CycleSummaryStartsDischarged(capacity_change, energy_change) ==
    LET max_charge == SeqMax(capacity_change)
        max_discharge == -SeqMin(capacity_change)
        last_cap == capacity_change[Len(capacity_change)]
        last_eng == energy_change[Len(energy_change)]
        discharge_cap == max_charge - last_cap
        charge_cap == max_charge
        discharge_eng == SeqMax(energy_change) - last_eng
        charge_eng == SeqMax(energy_change)
    IN  [max_cycled_capacity |-> (max_charge + max_discharge) \div 3600,
         energy_charge |-> charge_eng \div 3600,
         energy_discharge |-> discharge_eng \div 3600,
         capacity_charge |-> charge_cap \div 3600,
         capacity_discharge |-> discharge_cap \div 3600]

\* the five values _summarize writes for a cycle that is not skipped
CycleSummary(capacity_change, energy_change) ==
    LET max_charge == SeqMax(capacity_change)
        max_discharge == -SeqMin(capacity_change)
        starts_charged == max_discharge > max_charge
        last_cap == capacity_change[Len(capacity_change)]
        last_eng == energy_change[Len(energy_change)]
        discharge_cap == IF starts_charged THEN max_discharge ELSE max_charge - last_cap
        charge_cap == IF starts_charged THEN last_cap + max_discharge ELSE max_charge
        discharge_eng == IF starts_charged THEN -SeqMin(energy_change)
                         ELSE SeqMax(energy_change) - last_eng
        charge_eng == IF starts_charged THEN last_eng + discharge_eng
                      ELSE SeqMax(energy_change)
    IN  [max_cycled_capacity |-> (max_charge + max_discharge) \div 3600,
         energy_charge |-> charge_eng \div 3600,
         energy_discharge |-> discharge_eng \div 3600,
         capacity_charge |-> charge_cap \div 3600,
         capacity_discharge |-> discharge_cap \div 3600]

\* len(cycle_subset) < 3: the cycle is passed over
Skipped(df, k) == Len(CycleSubset(df, k, Len(df))) < 3

\* np.isclose(a, b, rtol=0.01): abs(a - b) <= atol + rtol * abs(b) with the
\* default atol = 1e-8, which among integers is 100 * abs(a - b) <= abs(b)
IsClose(a, b) == 100 * Abs(a - b) <= Abs(b)

\* faulty variant: a warning only when the two are equal
WarnsOnTie(capacity_change) == -SeqMin(capacity_change) = SeqMax(capacity_change)

\* whether _summarize warns about a cycle with that capacity_change
Warns(capacity_change) ==
    IsClose(-SeqMin(capacity_change), SeqMax(capacity_change))

\* the warnings of the loop of _summarize from its k-th turn on, each with
\* the cyc, max_discharge and max_charge its message gives
RECURSIVE Warnings(_, _, _, _)
Warnings(df, cols, reuse_integrals, k) ==
    IF k > Len(CycleStarts(df)) THEN <<>>
    ELSE LET capacity_change == CapacityChange(df, cols, reuse_integrals, k)
         IN  (IF ~Skipped(df, k) /\ Warns(capacity_change)
              THEN <<[cyc |-> k - 1,
                      max_discharge |-> -SeqMin(capacity_change),
                      max_charge |-> SeqMax(capacity_change)]>>
              ELSE <<>>)
                 \o Warnings(df, cols, reuse_integrals, k + 1)

\* one turn of the loop of _summarize; cyc = k - 1 is the count of enumerate
SummarizeCycle(df, cols, reuse_integrals, cycle_data, k) ==
    IF Skipped(df, k) THEN cycle_data
    ELSE LET cyc == k - 1
             v == CycleSummary(CapacityChange(df, cols, reuse_integrals, k),
                               EnergyChange(df, cols, reuse_integrals, k))
             c1 == LocSet(cycle_data, cyc, "max_cycled_capacity", v.max_cycled_capacity)
             c2 == LocSet(c1, cyc, "energy_charge", v.energy_charge)
             c3 == LocSet(c2, cyc, "energy_discharge", v.energy_discharge)
             c4 == LocSet(c3, cyc, "capacity_charge", v.capacity_charge)
         IN  LocSet(c4, cyc, "capacity_discharge", v.capacity_discharge)

RECURSIVE SummarizeCycles(_, _, _, _, _)
SummarizeCycles(df, cols, reuse_integrals, cycle_data, k) ==
    IF k > Len(CycleStarts(df)) THEN cycle_data
    ELSE SummarizeCycles(df, cols, reuse_integrals,
                         SummarizeCycle(df, cols, reuse_integrals, cycle_data, k), k + 1)

\* CapacityPerCycle._summarize: the cycle table it leaves
Summarize(df, cols, reuse_integrals, cycle_data) ==
    LET cleared == [i \in Rows(cycle_data) |->
                      [c \in DOMAIN cycle_data[i] |->
                          IF \E j \in 1..5 : column_names[j] = c THEN NaN
                          ELSE cycle_data[i][c]]]
    IN  SummarizeCycles(df, cols, reuse_integrals, cleared, 1)

\* a cycle table over the given cycle numbers, with the default index
CycleTable(cycle_numbers) ==
    [i \in 1..Len(cycle_numbers) |->
        [c \in {"index", "cycle_number"} \cup {column_names[j] : j \in 1..5} |->
            IF c = "index" THEN i - 1
            ELSE IF c = "cycle_number" THEN Num(cycle_numbers[i]) ELSE NaN]]

\* pd.DataFrame({'cycle_number': sorted(set(raw_data['cycle_number']))})
NewCycleStats(df) == CycleTable(SortedSeq({df[i].cycle_number : i \in Rows(df)}))

-----------------------------------------------------------------------------
(* schemas.column: ColumnInfo, ColumnSchema                                *)
(* A schema is the ordered list of the fields its class declares           *)
(* (model_fields, here three fields of RawData in their order) and the     *)
(* dict extra_columns, a sequence of entries in insertion order. A data    *)
(* frame maps the names of its columns to their content, named by one of   *)
(* the ColumnContents below.                                               *)

\* the values of the members of DataType
DataType == {"float", "integer", "control", "state", "other"}

ColumnInfo(required, type, description, units, monotonic) ==
    [required |-> required, type |-> type, description |-> description,
     units |-> units, monotonic |-> monotonic]

\* the fields of the schema class other than extra_columns, with their
\* defaults: state, cycle_number and test_time as RawData declares them
model_fields ==
    << [name |-> "state",
        info |-> ColumnInfo(FALSE, "state", "Whether the battery is being charged", "None", FALSE)],
       [name |-> "cycle_number",
        info |-> ColumnInfo(FALSE, "integer", "Index of the testing cycle", "None", TRUE)],
       [name |-> "test_time",
        info |-> ColumnInfo(TRUE, "float", "Time from the beginning", "s", TRUE)] >>

Keys(entries) == {entries[k].name : k \in DOMAIN entries}

\* d[name], for a dict held as a sequence of entries
Lookup(entries, name) ==
    entries[CHOOSE k \in DOMAIN entries : entries[k].name = name].info

\* d[name] = info: a key the dict holds keeps its place, a new one goes last
DictSet(entries, name, info) ==
    IF name \in Keys(entries)
    THEN [k \in DOMAIN entries |->
             IF entries[k].name = name THEN [name |-> name, info |-> info]
             ELSE entries[k]]
    ELSE Append(entries, [name |-> name, info |-> info])

\* d.update(other)
RECURSIVE DictUpdate(_, _, _)
DictUpdate(entries, other, k) ==
    IF k > Len(other) THEN entries
    ELSE DictUpdate(DictSet(entries, other[k].name, other[k].info), other, k + 1)

\* ColumnSchema.columns: the declared fields, updated with extra_columns
SchemaColumns(s) == DictUpdate(s.fields, s.extra_columns, 1)

\* ColumnSchema.column_names: a list, the keys of extra_columns after the
\* declared names
SchemaColumnNames(s) ==
    [k \in DOMAIN s.fields |-> s.fields[k].name]
        \o [k \in DOMAIN s.extra_columns |-> s.extra_columns[k].name]

\* ColumnSchema.add_column: the schema after the call
AddColumnTo(s, name, description, data_type, required, units, monotonic) ==
    [s EXCEPT !.extra_columns =
        DictSet(@, name, ColumnInfo(required, data_type, description, units, monotonic))]

\* what a column of a data frame can hold: the kind of its dtype ('f'
\* float, 'i' integer, 'O' object) and its values
ColumnContents ==
    {"float_increasing", "float_constant", "float_decreasing",
     "integer_increasing", "integer_constant", "integer_decreasing",
     "states", "not_states", "methods"}

DtypeKind(content) ==
    CASE content \in {"float_increasing", "float_constant", "float_decreasing"} -> "f"
      [] content \in {"integer_increasing", "integer_constant", "integer_decreasing"} -> "i"
      [] OTHER -> "O"

ColumnValues(content) ==
    CASE content \in {"float_increasing", "integer_increasing"} -> <<1, 2>>
      [] content \in {"float_constant", "integer_constant"} -> <<1, 1>>
      [] content \in {"float_decreasing", "integer_decreasing"} -> <<2, 1>>
      [] content = "states" -> <<"charging", "resting">>
      [] content = "methods" -> <<"constant_current", "rest">>
      [] OTHER -> <<"charging", "hold">>

\* data[column].isin(list(my_enum)) fails on some row; a number is no
\* member of an enumeration of strings
NotInEnum(content, my_enum) ==
    IF DtypeKind(content) /= "O" THEN TRUE
    ELSE \E i \in DOMAIN ColumnValues(content) : ColumnValues(content)[i] \notin my_enum

\* all(y >= x for x, y in zip(data[column], data[column].iloc[1:])); the
\* values of the object columns here are in alphabetical order
IsMonotonic(content) ==
    IF DtypeKind(content) = "O" THEN TRUE
    ELSE \A i \in DOMAIN ColumnValues(content) :
            i > 1 => ColumnValues(content)[i] >= ColumnValues(content)[i - 1]

NoError == [kind |-> "none", columns |-> {}]
ValueError(kind, names) == [kind |-> kind, columns |-> names]

\* faulty variant: a missing column is passed over, required or not
CheckColumnMissingIgnored(column, col_schema, data) ==
    IF column \notin DOMAIN data THEN NoError
    ELSE IF col_schema.type = "float" /\ DtypeKind(data[column]) \notin {"f", "c"}
    THEN ValueError("not a floating point number", {column})
    ELSE IF col_schema.type = "integer" /\ DtypeKind(data[column]) \notin {"i", "u"}
    THEN ValueError("not an integer", {column})
    ELSE IF col_schema.type = "control" /\ NotInEnum(data[column], ControlMethod)
    THEN ValueError("values not in enumeration", {column})
    ELSE IF col_schema.type = "state" /\ NotInEnum(data[column], ChargingState)
    THEN ValueError("values not in enumeration", {column})
    ELSE IF col_schema.type = "other" THEN NoError
    ELSE IF col_schema.type \notin DataType THEN ValueError("no type checking", {column})
    ELSE IF col_schema.monotonic /\ ~IsMonotonic(data[column])
    THEN ValueError("not monotonically increasing", {column})
    ELSE NoError

\* faulty variant: integer data passes for a column typed FLOAT
CheckColumnIntegerAsFloat(column, col_schema, data) ==
    IF column \notin DOMAIN data
    THEN IF col_schema.required THEN ValueError("missing a required column", {column})
         ELSE NoError
    ELSE IF col_schema.type = "float" /\ DtypeKind(data[column]) \notin {"f", "c", "i"}
    THEN ValueError("not a floating point number", {column})
    ELSE IF col_schema.type = "integer" /\ DtypeKind(data[column]) \notin {"i", "u"}
    THEN ValueError("not an integer", {column})
    ELSE IF col_schema.type = "control" /\ NotInEnum(data[column], ControlMethod)
    THEN ValueError("values not in enumeration", {column})
    ELSE IF col_schema.type = "state" /\ NotInEnum(data[column], ChargingState)
    THEN ValueError("values not in enumeration", {column})
    ELSE IF col_schema.type = "other" THEN NoError
    ELSE IF col_schema.type \notin DataType THEN ValueError("no type checking", {column})
    ELSE IF col_schema.monotonic /\ ~IsMonotonic(data[column])
    THEN ValueError("not monotonically increasing", {column})
    ELSE NoError

\* one turn of the loop of validate_dataframe over self.columns.items():
\* the error it raises, if any
CheckColumn(column, col_schema, data) ==
    IF column \notin DOMAIN data
    THEN IF col_schema.required THEN ValueError("missing a required column", {column})
         ELSE NoError
    ELSE IF col_schema.type = "float" /\ DtypeKind(data[column]) \notin {"f", "c"}
    THEN ValueError("not a floating point number", {column})
    ELSE IF col_schema.type = "integer" /\ DtypeKind(data[column]) \notin {"i", "u"}
    THEN ValueError("not an integer", {column})
    ELSE IF col_schema.type = "control" /\ NotInEnum(data[column], ControlMethod)
    THEN ValueError("values not in enumeration", {column})
    ELSE IF col_schema.type = "state" /\ NotInEnum(data[column], ChargingState)
    THEN ValueError("values not in enumeration", {column})
    ELSE IF col_schema.type = "other" THEN NoError
    ELSE IF col_schema.type \notin DataType THEN ValueError("no type checking", {column})
    ELSE IF col_schema.monotonic /\ ~IsMonotonic(data[column])
    THEN ValueError("not monotonically increasing", {column})
    ELSE NoError

\* the loop of validate_dataframe from its k-th turn on
RECURSIVE CheckColumns(_, _, _)
CheckColumns(cols, data, k) ==
    IF k > Len(cols) THEN NoError
    ELSE LET error == CheckColumn(cols[k].name, cols[k].info, data)
         IN  IF error /= NoError THEN error ELSE CheckColumns(cols, data, k + 1)

\* faulty variant: the keys of extra_columns count as undeclared
ValidateDataframeDeclaredOnly(s, data, allow_extra_columns) ==
    LET extra_cols == DOMAIN data \ Keys(s.fields)
    IN  IF ~allow_extra_columns /\ extra_cols /= {}
        THEN ValueError("extra columns", extra_cols)
        ELSE CheckColumns(SchemaColumns(s), data, 1)

\* ColumnSchema.validate_dataframe: the error it raises, NoError when it
\* returns
ValidateDataframe(s, data, allow_extra_columns) ==
    LET names == SchemaColumnNames(s)
        extra_cols == DOMAIN data \ {names[k] : k \in DOMAIN names}
    IN  IF ~allow_extra_columns /\ extra_cols /= {}
        THEN ValueError("extra columns", extra_cols)
        ELSE CheckColumns(SchemaColumns(s), data, 1)

\* JSON values are pairs of a tag and a text: true, false, null, "text"
JsonBool(b) == IF b THEN <<"bool", "true">> ELSE <<"bool", "false">>
JsonString(str) == <<"string", str>>
JsonNull == <<"null", "null">>

\* ColumnInfo.model_dump_json: the object of one column
InfoToJson(info) ==
    [required |-> JsonBool(info.required),
     type |-> JsonString(info.type),
     description |-> JsonString(info.description),
     units |-> IF info.units = "None" THEN JsonNull ELSE JsonString(info.units),
     monotonic |-> JsonBool(info.monotonic)]

\* ColumnInfo.model_validate of a parsed object
InfoFromJson(v) ==
    [required |-> v.required = <<"bool", "true">>,
     type |-> CHOOSE t \in DataType : v.type = JsonString(t),
     description |-> v.description[2],
     units |-> IF v.units = JsonNull THEN "None" ELSE v.units[2],
     monotonic |-> v.monotonic = <<"bool", "true">>]

EntriesToJson(entries) ==
    [k \in DOMAIN entries |->
        [name |-> entries[k].name, value |-> InfoToJson(entries[k].info)]]

EntriesFromJson(members) ==
    [k \in DOMAIN members |->
        [name |-> members[k].name, info |-> InfoFromJson(members[k].value)]]

\* model_dump_json of a schema: an object whose members are the fields of
\* the class in their order, extra_columns (declared by ColumnSchema) first
ToJson(s) ==
    <<[name |-> "extra_columns", value |-> EntriesToJson(s.extra_columns)]>>
        \o EntriesToJson(s.fields)

IsExtraColumns(member) == member.name = "extra_columns"
IsColumn(member) == member.name /= "extra_columns"

\* faulty variant: the member extra_columns is dropped
FromJsonWithoutExtras(buf) ==
    [fields |-> EntriesFromJson(SelectSeq(buf, IsColumn)),
     extra_columns |-> <<>>]

\* ColumnSchema.from_json: data.pop('extra_columns', {}) gives the extra
\* columns, the members left give the fields of the class that is made
FromJson(buf) ==
    [fields |-> EntriesFromJson(SelectSeq(buf, IsColumn)),
     extra_columns |->
        IF \E k \in DOMAIN buf : IsExtraColumns(buf[k])
        THEN EntriesFromJson(buf[CHOOSE k \in DOMAIN buf : IsExtraColumns(buf[k])].value)
        ELSE <<>>]

-----------------------------------------------------------------------------
(* Operations on the raw table *)

\* AddState.enhance, with the rest_curr_threshold the AddState was built
\* with
AddState ==
    /\ Len(raw_data) > 0
    /\ raw_data' = SetColumn(raw_data, "state",
                       [i \in Rows(raw_data) |->
                           DetermineState(raw_data[i], add_state.rest_curr_threshold)])
    /\ columns' = columns \cup {"state"}
    /\ warnings' = <<>>
    /\ log' = <<"Adding states">>
    /\ last_op' = "AddState"
    /\ UNCHANGED <<tables, cycle_stats, summarizer, coulombic_efficiency, add_state, sub_segments>>
    /\ UNCHANGED schema_vars
    /\ UNCHANGED stream_vars

\* AddSteps.enhance
AddSteps ==
    /\ Len(raw_data) > 0
    /\ "state" \in DOMAIN raw_data[1]
    /\ raw_data' = DetermineSteps(raw_data, "state", "step_index")
    /\ columns' = columns \cup {"step_index"}
    /\ warnings' = <<>>
    /\ log' = <<"Adding step indices">>
    /\ last_op' = "AddSteps"
    /\ UNCHANGED <<tables, cycle_stats, summarizer, coulombic_efficiency, add_state, sub_segments>>
    /\ UNCHANGED schema_vars
    /\ UNCHANGED stream_vars

\* AddMethod.enhance. The peaks of the smoothed second derivatives and the
\* ratio of deviations in each sub-segment are functions of the current and
\* voltage columns that are not computed here: sub_segments holds their
\* values for this table, drawn with the table.
AddMethod ==
    /\ "step_index" \in columns
    /\ raw_data' = SetColumn(raw_data, "method",
                       MethodColumn(raw_data, sub_segments.extrema, sub_segments.label))
    /\ columns' = columns \cup {"method"}
    /\ warnings' = <<>>
    /\ log' = <<"Identifying charging/discharging methods">>
    /\ last_op' = IF Raises(raw_data, sub_segments.extrema, sub_segments.label)
                  THEN "AssertionError" ELSE "AddMethod"
    /\ UNCHANGED <<tables, cycle_stats, summarizer, coulombic_efficiency, add_state, sub_segments>>
    /\ UNCHANGED schema_vars
    /\ UNCHANGED stream_vars

\* AddSubSteps.enhance
AddSubSteps ==
    /\ Len(raw_data) > 0
    /\ "method" \in columns
    /\ raw_data' = DetermineSteps(raw_data, "method", "substep_index")
    /\ columns' = columns \cup {"substep_index"}
    /\ warnings' = <<>>
    /\ log' = <<"Adding substep indices">>
    /\ last_op' = "AddSubSteps"
    /\ UNCHANGED <<tables, cycle_stats, summarizer, coulombic_efficiency, add_state, sub_segments>>
    /\ UNCHANGED schema_vars
    /\ UNCHANGED stream_vars

\* StateOfCharge(coulombic_efficiency).enhance
StateOfCharge ==
    /\ \E ce \in CoulombicEfficiencies :
          /\ coulombic_efficiency' = ce
          /\ raw_data' = StateOfChargeEnhance(raw_data, ce)
    /\ columns' = columns \cup {"cycled_charge", "cycled_energy", "CE_charge"}
    /\ warnings' = <<>>
    /\ log' = <<>>
    /\ last_op' = "StateOfCharge"
    /\ UNCHANGED <<tables, cycle_stats, summarizer, add_state, sub_segments>>
    /\ UNCHANGED schema_vars
    /\ UNCHANGED stream_vars

\* CapacityPerCycle(reuse_integrals).add_summaries
CapacityPerCycle ==
    \E reuse_integrals \in BOOLEAN :
        /\ summarizer' = [reuse_integrals |-> reuse_integrals]
        /\ tables' = tables \cup {"cycle_stats"}
        /\ cycle_stats' =
              Summarize(raw_data, columns, reuse_integrals,
                        IF "cycle_stats" \notin tables THEN NewCycleStats(raw_data)
                        ELSE cycle_stats)
        /\ warnings' = Warnings(raw_data, columns, reuse_integrals, 1)
        /\ log' = <<>>
        /\ last_op' = "CapacityPerCycle"
        /\ UNCHANGED <<raw_data, columns, coulombic_efficiency, add_state, sub_segments>>
        /\ UNCHANGED schema_vars
        /\ UNCHANGED stream_vars

-----------------------------------------------------------------------------
(* Operations on a schema *)

\* validation holds the argument and the outcome of validate_dataframe when
\* it was the last call on the schema, and this value otherwise
NoValidation == [allow_extra_columns |-> TRUE, error |-> NoError]

\* the schema variables of a state in which no schema was built
NoSchema ==
    /\ schema = [fields |-> <<>>, extra_columns |-> <<>>]
    /\ dataframe = <<>>
    /\ validation = NoValidation
    /\ parsed = [fields |-> <<>>, extra_columns |-> <<>>]

\* schema.add_column(name, description, data_type, required, units, monotonic)
add_column ==
    /\ \E name \in ExtraNames, data_type \in ExtraTypes,
          required \in BOOLEAN, monotonic \in BOOLEAN :
          /\ name \in Keys(schema.extra_columns)
                \/ Len(schema.extra_columns) < MaxExtraColumns
          /\ schema' = AddColumnTo(schema, name, "Added", data_type, required,
                                   "None", monotonic)
    /\ validation' = NoValidation
    /\ last_op' = "add_column"
    /\ UNCHANGED <<dataframe, parsed>>
    /\ UNCHANGED dataset_vars
    /\ UNCHANGED stream_vars

\* schema.validate_dataframe(dataframe, allow_extra_columns)
validate_dataframe ==
    /\ \E allow_extra_columns \in BOOLEAN :
          validation' = [allow_extra_columns |-> allow_extra_columns,
                         error |-> ValidateDataframe(schema, dataframe,
                                                     allow_extra_columns)]
    /\ last_op' = "validate_dataframe"
    /\ UNCHANGED <<schema, dataframe, parsed>>
    /\ UNCHANGED dataset_vars
    /\ UNCHANGED stream_vars

\* ColumnSchema.from_json(schema.model_dump_json())
from_json ==
    /\ parsed' = FromJson(ToJson(schema))
    /\ last_op' = "from_json"
    /\ UNCHANGED <<schema, dataframe, validation>>
    /\ UNCHANGED dataset_vars
    /\ UNCHANGED stream_vars

-----------------------------------------------------------------------------
(* streaming.hdf5.HDF5Writer                                               *)
(* The writer is given a path (the file is created anew at __enter__) or   *)
(* an open File (a raw_data table it holds is appended to). A row is a     *)
(* dict; the rows differ in test_time, which is the number of the call of  *)
(* write_row. The table keeps the names of its columns and its rows.       *)

Outputs == {"path", "File"}

\* the keys of the rows: those of the first row, one key less, one key more
RowKeys == {{"test_time", "current"}, {"test_time"},
            {"test_time", "current", "voltage"}}

NewRow(keys, n) == [c \in keys |-> IF c = "test_time" THEN n ELSE 0]

NoTable == [exists |-> FALSE, names |-> {}, rows |-> <<>>]

NoReturn == [raised |-> FALSE, written |-> 0, stored |-> 0]

NoContext == [rows |-> <<>>, before |-> 0, inside |-> FALSE, calls |-> 0]

NoWriter ==
    /\ writer = [hdf5_output |-> "path", buffer_size |-> 1,
                 write_buffer |-> <<>>, table |-> FALSE, entered |-> FALSE]
    /\ returned = NoReturn
    /\ context = NoContext

NoFrames == [raised |-> FALSE, yielded |-> <<>>]

NoReader ==
    /\ reader = [chunksize |-> 1]
    /\ frames = NoFrames

NoStream ==
    /\ NoWriter
    /\ store = NoTable
    /\ NoReader

\* pd.DataFrame(list of dicts) written by write_df_to_table: the columns are
\* the keys of all rows, a key a row lacks is NaN in its row
DataFrame(buffer) ==
    LET names == UNION {DOMAIN buffer[i] : i \in 1..Len(buffer)}
    IN  [exists |-> TRUE,
         names  |-> names,
         rows   |-> [i \in 1..Len(buffer) |->
                        [c \in names |-> IF c \in DOMAIN buffer[i]
                                         THEN Num(buffer[i][c]) ELSE NaN]]]

\* the loop of flush over the buffer, from row k on: a row whose keys are not
\* the names of the table is logged; a name of the table that the row lacks
\* raises KeyError at row[c] = new_row[c], after the rows before it were
\* appended
RECURSIVE AppendRows(_, _, _)
AppendRows(table, buffer, k) ==
    IF k > Len(buffer)
    THEN [table |-> table, raised |-> FALSE, log |-> <<>>]
    ELSE LET new_row == buffer[k]
             warned  == IF DOMAIN new_row # table.names
                        THEN <<"Row has different keys than the Table">>
                        ELSE <<>>
         IN  IF ~(table.names \subseteq DOMAIN new_row)
             THEN [table |-> table, raised |-> TRUE, log |-> warned]
             ELSE LET row  == [c \in table.names |-> Num(new_row[c])]
                      rest == AppendRows(
                                  [table EXCEPT !.rows = Append(@, row)],
                                  buffer, k + 1)
                  IN  [rest EXCEPT !.log = warned \o @]

\* flush: the table is made from the buffer the first time and appended to
\* afterwards; the buffer is cleared only when no row raised
flush(w, table) ==
    IF ~w.table
    THEN [writer  |-> [w EXCEPT !.table = TRUE, !.write_buffer = <<>>],
          store   |-> DataFrame(w.write_buffer),
          raised  |-> FALSE,
          written |-> Len(w.write_buffer),
          log     |-> <<>>]
    ELSE LET appended == AppendRows(table, w.write_buffer, 1)
         IN  [writer  |-> IF appended.raised THEN w
                          ELSE [w EXCEPT !.write_buffer = <<>>],
              store   |-> appended.table,
              raised  |-> appended.raised,
              written |-> IF appended.raised THEN 0 ELSE Len(w.write_buffer),
              log     |-> appended.log]

\* what a call returns, and the number of rows the table gained in it
Returned(result, table) ==
    [raised  |-> result.raised,
     written |-> result.written,
     stored  |-> Len(result.store.rows) - Len(table.rows)]

__enter__ ==
    /\ ~writer.entered
    /\ ~context.inside
    /\ LET table == IF writer.hdf5_output = "File" THEN store ELSE NoTable
       IN  /\ store' = table
           /\ writer' = [writer EXCEPT !.write_buffer = <<>>,
                                       !.table = table.exists,
                                       !.entered = TRUE]
           /\ context' = [context EXCEPT !.rows = <<>>,
                                         !.before = Len(table.rows),
                                         !.inside = TRUE]
    /\ returned' = NoReturn
    /\ last_op' = "__enter__"
    /\ warnings' = <<>>
    /\ log' = <<>>
    /\ UNCHANGED <<raw_data, columns, tables, cycle_stats, summarizer,
                   coulombic_efficiency, add_state, sub_segments>>
    /\ UNCHANGED schema_vars
    /\ UNCHANGED <<reader, frames>>

write_row ==
    /\ writer.entered
    /\ context.inside
    /\ context.calls < MaxWrites
    /\ \E keys \in RowKeys :
        LET row      == NewRow(keys, context.calls + 1)
            buffered == [writer EXCEPT !.write_buffer = Append(@, row)]
            result   == IF Len(buffered.write_buffer) >= writer.buffer_size
                        THEN flush(buffered, store)
                        ELSE [writer |-> buffered, store |-> store,
                              raised |-> FALSE, written |-> 0, log |-> <<>>]
        IN  /\ writer' = result.writer
            /\ store' = result.store
            /\ returned' = Returned(result, store)
            /\ log' = result.log
            /\ context' = [context EXCEPT !.rows = Append(@, row),
                                          !.calls = @ + 1]
    /\ last_op' = "write_row"
    /\ warnings' = <<>>
    /\ UNCHANGED <<raw_data, columns, tables, cycle_stats, summarizer,
                   coulombic_efficiency, add_state, sub_segments>>
    /\ UNCHANGED schema_vars
    /\ UNCHANGED <<reader, frames>>

\* __exit__: when flush raises, the file is not closed and the fields of the
\* writer are not reset
__exit__ ==
    /\ writer.entered
    /\ context.inside
    /\ LET result == IF Len(writer.write_buffer) > 0
                     THEN flush(writer, store)
                     ELSE [writer |-> writer, store |-> store,
                           raised |-> FALSE, written |-> 0, log |-> <<>>]
       IN  /\ writer' = IF result.raised THEN result.writer
                        ELSE [result.writer EXCEPT !.write_buffer = <<>>,
                                                   !.table = FALSE,
                                                   !.entered = FALSE]
           /\ store' = result.store
           /\ returned' = Returned(result, store)
           /\ log' = result.log
    /\ context' = [context EXCEPT !.inside = FALSE]
    /\ last_op' = "__exit__"
    /\ warnings' = <<>>
    /\ UNCHANGED <<raw_data, columns, tables, cycle_stats, summarizer,
                   coulombic_efficiency, add_state, sub_segments>>
    /\ UNCHANGED schema_vars
    /\ UNCHANGED <<reader, frames>>

-----------------------------------------------------------------------------
(* Specifications of the schemas. SchemaSpec: a schema of three fields   *)
(* of RawData to which columns are added, among them one under the name   *)
(* of a declared field, and a data frame that is validated against it.    *)
(* JsonSpec: the same schemas, written to JSON and read back.             *)

\* the contents each column of the data frames is drawn from; no schema
\* here describes a column named comment
ColumnChoices ==
    [state |-> {"states", "not_states"},
     cycle_number |-> {"integer_constant", "integer_decreasing", "float_increasing"},
     test_time |-> {"float_increasing", "float_decreasing", "integer_increasing"},
     extra |-> {"float_increasing", "float_decreasing", "integer_decreasing",
                "methods"},
     comment |-> {"states"}]

DataFrames ==
    UNION {{f \in [S -> ColumnContents] : \A c \in S : f[c] \in ColumnChoices[c]} :
              S \in SUBSET DOMAIN ColumnChoices}

NoDataset ==
    /\ raw_data = <<>>
    /\ columns = {}
    /\ tables = {}
    /\ cycle_stats = <<>>
    /\ summarizer = [reuse_integrals |-> TRUE]
    /\ coulombic_efficiency = <<1, 1>>
    /\ add_state = [rest_curr_threshold |-> rest_curr_threshold]
    /\ sub_segments = [extrema |-> {}, label |-> <<>>]
    /\ warnings = <<>>
    /\ log = <<>>

SchemaInit ==
    /\ schema = [fields |-> model_fields, extra_columns |-> <<>>]
    /\ dataframe \in DataFrames
    /\ validation = NoValidation
    /\ parsed = [fields |-> <<>>, extra_columns |-> <<>>]
    /\ last_op = "built"
    /\ NoDataset
    /\ NoStream

SchemaNext == add_column \/ validate_dataframe

SchemaSpec == SchemaInit /\ [][SchemaNext]_vars

JsonInit ==
    /\ schema = [fields |-> model_fields, extra_columns |-> <<>>]
    /\ dataframe = <<>>
    /\ validation = NoValidation
    /\ parsed = [fields |-> <<>>, extra_columns |-> <<>>]
    /\ last_op = "built"
    /\ NoDataset
    /\ NoStream

JsonNext == add_column \/ from_json

JsonSpec == JsonInit /\ [][JsonNext]_vars

-----------------------------------------------------------------------------
(* Specifications of the tagging stages. The state column is supplied by   *)
(* the cycler and the table is sampled at a fixed period. TagSpec draws    *)
(* any sequence of cycle numbers; MethodSpec draws non-decreasing ones and *)
(* two sampling periods, so that groups shorter and longer than            *)
(* short_period_threshold occur with fewer and with more than 5 rows.      *)

TagRow(i, c, s, dt) ==
    [cycle_number |-> c, test_time |-> (i - 1) * dt, state |-> s,
     current |-> 0, voltage |-> 0]

TagInit ==
    /\ \E n \in 1..MaxTagRows :
       \E cyc \in [1..n -> CycleNumbers] :
       \E st \in [1..n -> ChargingState \ {"unknown"}] :
       \E dt \in TagSampleSteps :
          /\ raw_data = [i \in 1..n |-> TagRow(i, cyc[i], st[i], dt)]
          /\ sub_segments \in SubSegmentOutcomes(raw_data)
    /\ warnings = <<>>
    /\ log = <<>>
    /\ columns = {}
    /\ tables = {"raw_data"}
    /\ cycle_stats = <<>>
    /\ summarizer = [reuse_integrals |-> TRUE]
    /\ coulombic_efficiency = <<1, 1>>
    /\ add_state = [rest_curr_threshold |-> rest_curr_threshold]
    /\ last_op = "read"
    /\ NoSchema
    /\ NoStream

MethodInit ==
    /\ \E n \in 1..MaxTagRows :
       \E cyc \in {f \in [1..n -> CycleNumbers] : \A i \in 2..n : f[i-1] <= f[i]} :
       \E st \in [1..n -> ChargingState \ {"unknown"}] :
       \E dt \in SampleSteps :
          /\ raw_data = [i \in 1..n |-> TagRow(i, cyc[i], st[i], dt)]
          /\ sub_segments \in SubSegmentOutcomes(raw_data)
    /\ warnings = <<>>
    /\ log = <<>>
    /\ columns = {}
    /\ tables = {"raw_data"}
    /\ cycle_stats = <<>>
    /\ summarizer = [reuse_integrals |-> TRUE]
    /\ coulombic_efficiency = <<1, 1>>
    /\ add_state = [rest_curr_threshold |-> rest_curr_threshold]
    /\ last_op = "read"
    /\ NoSchema
    /\ NoStream

TagNext == AddSteps \/ AddMethod \/ AddSubSteps

TagSpec == TagInit /\ [][TagNext]_vars

MethodSpec == MethodInit /\ [][TagNext]_vars

-----------------------------------------------------------------------------
(* Specification of the ratio labels: tables of one cycle of MinPoints     *)
(* to MaxRatioRows rows, all charging and sampled every 10 s, so that the  *)
(* one group reaches the sub-segmentation. The current varies from row to  *)
(* row; the voltage is flat, goes up and down from row to row, or falls    *)
(* after the first row. The labels of the sub-segments are those the ratio *)
(* of the deviations gives.                                                *)

RatioVoltage(profile, i) ==
    IF profile = "flat" THEN 0
    ELSE IF profile = "alternating" THEN i % 2
    ELSE IF i = 1 THEN 1 ELSE 0

RatioInit ==
    /\ \E n \in MinPoints..MaxRatioRows :
       \E cur \in [1..n -> RatioCurrents] :
       \E profile \in RatioVoltageProfiles :
          /\ raw_data = [i \in 1..n |->
                            [cycle_number |-> 0, test_time |-> (i - 1) * 10,
                             state |-> "charging",
                             current |-> cur[i],
                             voltage |-> RatioVoltage(profile, i)]]
          /\ sub_segments \in RatioOutcomes(raw_data)
    /\ warnings = <<>>
    /\ log = <<>>
    /\ columns = {}
    /\ tables = {"raw_data"}
    /\ cycle_stats = <<>>
    /\ summarizer = [reuse_integrals |-> TRUE]
    /\ coulombic_efficiency = <<1, 1>>
    /\ add_state = [rest_curr_threshold |-> rest_curr_threshold]
    /\ last_op = "read"
    /\ NoSchema
    /\ NoStream

RatioNext == AddSteps \/ AddMethod

RatioSpec == RatioInit /\ [][RatioNext]_vars

-----------------------------------------------------------------------------
(* Specification of the state detection: tables of one cycle that carry no *)
(* state column yet, with currents on both sides of rest_curr_threshold    *)
(* and on it.                                                              *)

StateRow(i, c) ==
    [cycle_number |-> 0, test_time |-> (i - 1) * 10, current |-> c, voltage |-> 0]

StateInit ==
    /\ \E n \in 1..MaxStateRows :
       \E cur \in [1..n -> StateCurrents] :
          raw_data = [i \in 1..n |-> StateRow(i, cur[i])]
    /\ columns = {}
    /\ tables = {"raw_data"}
    /\ cycle_stats = <<>>
    /\ summarizer = [reuse_integrals |-> TRUE]
    /\ coulombic_efficiency = <<1, 1>>
    /\ add_state = [rest_curr_threshold |-> rest_curr_threshold]
    /\ sub_segments = [extrema |-> {}, label |-> <<>>]
    /\ warnings = <<>>
    /\ log = <<>>
    /\ last_op = "read"
    /\ NoSchema
    /\ NoStream

StateNext == AddState

StateSpec == StateInit /\ [][StateNext]_vars

-----------------------------------------------------------------------------
(* Specification of the integration stages: tables of up to MaxRows rows   *)
(* whose cycle numbers start at 0 and go up by 0 or 1 from row to row.     *)
(* Currents are even and the sampling period is a multiple of 7200 s, so   *)
(* that the trapezoids, the efficiency and the division by 3600 are exact. *)

IntegrationRow(t, c, i, v) ==
    [cycle_number |-> c, test_time |-> t, current |-> i, voltage |-> v]

RECURSIVE RunningSum(_, _)
RunningSum(f, i) == IF i = 0 THEN 0 ELSE RunningSum(f, i - 1) + f[i]

IntegrationTables(n, cycles) ==
    {[i \in 1..n |->
         IntegrationRow(RunningSum(dt, i - 1), cyc[i], cur[i], vp[2 - (i % 2)])] :
       cyc \in cycles, cur \in [1..n -> Currents],
       vp \in VoltageProfiles, dt \in [1..(n-1) -> IntegrationSteps]}

ConsecutiveCycles(n) ==
    {f \in [1..n -> 0..(n-1)] :
        /\ f[1] = 0
        /\ \A i \in 2..n : f[i] - f[i-1] \in {0, 1}}

IntegrationInit ==
    /\ \E n \in 1..MaxRows : raw_data \in IntegrationTables(n, ConsecutiveCycles(n))
    /\ columns = {}
    /\ tables = {"raw_data"}
    /\ cycle_stats = <<>>
    /\ summarizer = [reuse_integrals |-> TRUE]
    /\ coulombic_efficiency = <<1, 1>>
    /\ add_state = [rest_curr_threshold |-> rest_curr_threshold]
    /\ sub_segments = [extrema |-> {}, label |-> <<>>]
    /\ warnings = <<>>
    /\ log = <<>>
    /\ last_op = "read"
    /\ NoSchema
    /\ NoStream

IntegrationNext == StateOfCharge \/ CapacityPerCycle

IntegrationSpec == IntegrationInit /\ [][IntegrationNext]_vars

-----------------------------------------------------------------------------
(* Specification of the sign convention: tables of one cycle sampled every *)
(* 7200 s, with currents on both sides of 0 that are multiples of 2, so    *)
(* that the efficiency 1/2 and the integrals are exact, and an AddState    *)
(* built with a rest_curr_threshold of 0, of the size of the smaller       *)
(* currents, or of the size of the larger ones.                            *)

ConventionInit ==
    /\ \E n \in 1..MaxConventionRows :
       \E cur \in [1..n -> ConventionCurrents] :
          raw_data = [i \in 1..n |-> IntegrationRow((i - 1) * 7200, 0, cur[i], 1)]
    /\ add_state \in [rest_curr_threshold : RestThresholds]
    /\ columns = {}
    /\ tables = {"raw_data"}
    /\ cycle_stats = <<>>
    /\ summarizer = [reuse_integrals |-> TRUE]
    /\ coulombic_efficiency = <<1, 1>>
    /\ sub_segments = [extrema |-> {}, label |-> <<>>]
    /\ warnings = <<>>
    /\ log = <<>>
    /\ last_op = "read"
    /\ NoSchema
    /\ NoStream

ConventionNext == AddState \/ StateOfCharge

ConventionSpec == ConventionInit /\ [][ConventionNext]_vars

-----------------------------------------------------------------------------
(* Specification of the cycle table: raw tables with any sequence of cycle *)
(* numbers (gaps, a first cycle other than 0, numbers that go down), and a *)
(* cycle table that a reader may have supplied before any summarizer ran.  *)

FirstAppearances(df) ==
    [k \in 1..Len(CycleStarts(df)) |-> df[CycleStarts(df)[k]].cycle_number]

\* the cycle tables a reader supplies, one row per cycle of the raw table:
\* in the order of the raw table with the default index, or sorted and
\* indexed by cycle number
ReaderCycleStats(df) ==
    LET sorted == SortedSeq({df[i].cycle_number : i \in Rows(df)})
    IN  {CycleTable(FirstAppearances(df)),
         [i \in 1..Len(sorted) |->
             [CycleTable(sorted)[i] EXCEPT !.index = sorted[i]]]}

CycleInit ==
    /\ \E n \in 1..MaxRows :
          raw_data \in {[i \in 1..n |->
                           IntegrationRow((i - 1) * 7200, cyc[i], cur[i], 1 + (i % 2))] :
                         cyc \in [1..n -> SparseCycleNumbers],
                         cur \in [1..n -> Currents \ {0}]}
    /\ columns = {}
    /\ \/ tables = {"raw_data"} /\ cycle_stats = <<>>
       \/ tables = {"raw_data", "cycle_stats"} /\ cycle_stats \in ReaderCycleStats(raw_data)
    /\ summarizer = [reuse_integrals |-> TRUE]
    /\ coulombic_efficiency = <<1, 1>>
    /\ add_state = [rest_curr_threshold |-> rest_curr_threshold]
    /\ sub_segments = [extrema |-> {}, label |-> <<>>]
    /\ warnings = <<>>
    /\ log = <<>>
    /\ last_op = "read"
    /\ NoSchema
    /\ NoStream

CycleSpec == CycleInit /\ [][IntegrationNext]_vars

-----------------------------------------------------------------------------
(* Specification of the ambiguous cycles: tables of one or two cycles      *)
(* whose currents make the largest charge and the largest discharge of a   *)
(* cycle differ by 1 % or by more, with room for two cycles of three rows. *)

AmbiguousInit ==
    /\ \E n \in 1..MaxWideRows :
          raw_data \in {[i \in 1..n |->
                           IntegrationRow((i - 1) * 3600, cyc[i], cur[i], 1 + (i % 2))] :
                         cyc \in {f \in [1..n -> CycleNumbers] :
                                     f[1] = 0 /\ \A i \in 2..n : f[i-1] <= f[i]},
                         cur \in [1..n -> WideCurrents]}
    /\ columns = {}
    /\ tables = {"raw_data"}
    /\ cycle_stats = <<>>
    /\ summarizer = [reuse_integrals |-> TRUE]
    /\ coulombic_efficiency = <<1, 1>>
    /\ add_state = [rest_curr_threshold |-> rest_curr_threshold]
    /\ sub_segments = [extrema |-> {}, label |-> <<>>]
    /\ warnings = <<>>
    /\ log = <<>>
    /\ last_op = "read"
    /\ NoSchema
    /\ NoStream

AmbiguousSpec == AmbiguousInit /\ [][IntegrationNext]_vars

-----------------------------------------------------------------------------
(* Specification of the whole pipeline: tables as the integration stages   *)
(* take them, of one or two cycles and with no state column, on            *)
(* which the six stages run in any order in which each finds the columns   *)
(* it reads. No current lies between 0 and rest_curr_threshold, and no     *)
(* group has the 5 rows AddMethod needs to look for sub-segments.          *)

PipelineInit ==
    /\ \E n \in 1..MaxPipelineRows :
          raw_data \in {[i \in 1..n |->
                           IntegrationRow((i - 1) * 7200, cyc[i], cur[i], 1 + (i % 2))] :
                         cyc \in {f \in [1..n -> CycleNumbers] :
                                     \A i \in 2..n : f[i-1] <= f[i]},
                         cur \in [1..n -> Currents]}
    /\ columns = {}
    /\ tables = {"raw_data"}
    /\ cycle_stats = <<>>
    /\ summarizer = [reuse_integrals |-> TRUE]
    /\ coulombic_efficiency = <<1, 1>>
    /\ add_state = [rest_curr_threshold |-> rest_curr_threshold]
    /\ sub_segments = [extrema |-> {}, label |-> <<>>]
    /\ warnings = <<>>
    /\ log = <<>>
    /\ last_op = "read"
    /\ NoSchema
    /\ NoStream

PipelineNext ==
    \/ AddState
    \/ AddSteps
    \/ AddMethod
    \/ AddSubSteps
    \/ StateOfCharge
    \/ CapacityPerCycle

PipelineSpec == PipelineInit /\ [][PipelineNext]_vars

-----------------------------------------------------------------------------
(* streaming.iterate_cycles_from_file                                      *)
(* The raw_data table of the file is read in chunks of chunksize rows. A   *)
(* frame is the sequence of its rows. current_cycle and                    *)
(* current_cycle_chunks are None until the first chunk is taken: None is   *)
(* NaN for the cycle, and started = FALSE for the list.                    *)

\* the chunks of pd.read_hdf(..., iterator=True): none for a table that has
\* no row, otherwise consecutive blocks of chunksize rows, the last shorter
TableIterator(rows, chunksize) ==
    [k \in 1..((Len(rows) + chunksize - 1) \div chunksize) |->
        SubSeq(rows, (k - 1) * chunksize + 1, Min({k * chunksize, Len(rows)}))]

\* new_chunk[new_chunk['cycle_number'] == current_cycle] and its complement
InCycle(chunk, current_cycle) ==
    SelectSeq(chunk, LAMBDA row : row.cycle_number = current_cycle)

NotInCycle(chunk, current_cycle) ==
    SelectSeq(chunk, LAMBDA row : row.cycle_number # current_cycle)

\* pd.concat of a list of frames
RECURSIVE Concat(_)
Concat(chunks) ==
    IF chunks = <<>> THEN <<>> ELSE Head(chunks) \o Concat(Tail(chunks))

\* the while loop over one chunk and the append after it
RECURSIVE TakeChunk(_, _)
TakeChunk(new_chunk, it) ==
    LET my_cycle == InCycle(new_chunk, it.current_cycle)
        others   == NotInCycle(new_chunk, it.current_cycle)
    IN  IF others = <<>>
        THEN [it EXCEPT !.current_cycle_chunks = Append(@, new_chunk)]
        ELSE TakeChunk(others,
                 [current_cycle        |-> others[1].cycle_number,
                  current_cycle_chunks |-> <<>>,
                  started              |-> TRUE,
                  yielded              |->
                      IF it.started
                      THEN Append(it.yielded,
                               Concat(Append(it.current_cycle_chunks, my_cycle)))
                      ELSE it.yielded])

RECURSIVE TakeChunks(_, _, _)
TakeChunks(chunks, k, it) ==
    IF k > Len(chunks) THEN it
    ELSE TakeChunks(chunks, k + 1, TakeChunk(chunks[k], it))

\* the generator run to its end: the frames it yielded, and whether it ended
\* by raising: pd.concat(None) when no chunk was taken
IterateCycles(rows, chunksize) ==
    LET it == TakeChunks(TableIterator(rows, chunksize), 1,
                         [current_cycle |-> NaN, current_cycle_chunks |-> <<>>,
                          started |-> FALSE, yielded |-> <<>>])
    IN  IF it.started
        THEN [raised |-> FALSE,
              yielded |-> Append(it.yielded, Concat(it.current_cycle_chunks))]
        ELSE [raised |-> TRUE, yielded |-> it.yielded]

iterate_cycles_from_file ==
    /\ store.exists
    /\ \E chunksize \in 1..MaxChunkSize :
        /\ reader' = [chunksize |-> chunksize]
        /\ frames' = IterateCycles(store.rows, chunksize)
    /\ last_op' = "iterate_cycles_from_file"
    /\ UNCHANGED dataset_vars
    /\ UNCHANGED schema_vars
    /\ UNCHANGED <<writer, store, returned, context>>

-----------------------------------------------------------------------------
(* Specification of the streaming writer: a writer over a path or over an  *)
(* open File, which may hold a raw_data table of one row already, with a   *)
(* buffer_size from 1 on; contexts are entered and left and up to          *)
(* MaxWrites rows written, some with a key less or more than the first.    *)

\* a raw_data table written before: one row, at test_time 0
StoredBefore == DataFrame(<<NewRow({"test_time", "current"}, 0)>>)

WriterInit ==
    /\ NoDataset
    /\ NoSchema
    /\ NoReader
    /\ \E output \in Outputs, size \in 1..MaxBufferSize :
        writer = [hdf5_output |-> output, buffer_size |-> size,
                  write_buffer |-> <<>>, table |-> FALSE, entered |-> FALSE]
    /\ store \in IF writer.hdf5_output = "File"
                 THEN {NoTable, StoredBefore} ELSE {NoTable}
    /\ returned = NoReturn
    /\ context = NoContext
    /\ last_op = "built"

WriterNext == __enter__ \/ write_row \/ __exit__

WriterSpec == WriterInit /\ [][WriterNext]_vars

-----------------------------------------------------------------------------
(* Specification of the cycle iterator: stored tables of up to             *)
(* MaxStoredRows rows, the table of no row among them, whose cycle numbers *)
(* never go down, read with chunks of 1 to MaxChunkSize rows.              *)

StoredTable(cycles) ==
    [exists |-> TRUE,
     names  |-> {"test_time", "cycle_number"},
     rows   |-> [i \in 1..Len(cycles) |->
                    [test_time |-> Num(i), cycle_number |-> Num(cycles[i])]]]

ReaderInit ==
    /\ NoDataset
    /\ NoSchema
    /\ NoWriter
    /\ NoReader
    /\ \E n \in 0..MaxStoredRows :
        \E cycles \in [1..n -> SparseCycleNumbers] :
            /\ \A i \in 1..(n - 1) : cycles[i] <= cycles[i + 1]
            /\ store = StoredTable(cycles)
    /\ last_op = "built"

ReaderNext == iterate_cycles_from_file

ReaderSpec == ReaderInit /\ [][ReaderNext]_vars

-----------------------------------------------------------------------------
(* Properties of the step and substep segmenters *)

\* the index restarts at 0 on the first row of every cycle and follows the
\* runs of the source column inside the cycle
RunLengthWithinCycles(df, column, out) ==
    \A i \in Rows(df) :
        IF i = 1 \/ df[i-1].cycle_number /= df[i].cycle_number
        THEN df[i][out] = 0
        ELSE IF df[i][column] = df[i-1][column]
             THEN df[i][out] = df[i-1][out]
             ELSE df[i][out] = df[i-1][out] + 1

\* the k-th maximal run of a cycle has index k-1
RunNumbersWithinCycles(df, column, out) ==
    \A i \in Rows(df) :
        df[i][out] =
            Cardinality({j \in 2..i : /\ \A k \in j-1..i : df[k].cycle_number = df[i].cycle_number
                                      /\ df[j][column] /= df[j-1][column]})

\* C1: after AddSteps.enhance (AddSubSteps.enhance) on a table whose
\* cycle_number is non-decreasing, step_index (substep_index) is 0 on the
\* first row of every cycle, equal on adjacent rows of a cycle with equal
\* state (method) and 1 larger where the state (method) differs from the
\* previous row of the cycle, so the k-th run of a cycle has index k-1.
C1_StepIndexWithinCycle ==
    NonDecreasingCycles(raw_data) =>
        /\ last_op = "AddSteps" =>
              /\ RunLengthWithinCycles(raw_data, "state", "step_index")
              /\ RunNumbersWithinCycles(raw_data, "state", "step_index")
        /\ last_op = "AddSubSteps" =>
              /\ RunLengthWithinCycles(raw_data, "method", "substep_index")
              /\ RunNumbersWithinCycles(raw_data, "method", "substep_index")

\* a table of two cycles in which the second cycle starts after two changes
\* of state, holds three runs itself, and has been given substeps
C1_Witness ==
    /\ NonDecreasingCycles(raw_data)
    /\ last_op = "AddSubSteps"
    /\ \E i, j, k \in Rows(raw_data) :
          /\ i < j /\ j < k
          /\ raw_data[i].cycle_number = 0 /\ raw_data[i].step_index = 1
          /\ raw_data[j].cycle_number = 1 /\ raw_data[j].step_index = 0
          /\ raw_data[j].state /= raw_data[j-1].state
          /\ raw_data[k].cycle_number = 1 /\ raw_data[k].step_index = 1
          /\ raw_data[k].substep_index = 1

AdjacentPairs(df, column, out, pairs) ==
    \A i \in pairs :
        IF df[i][column] = df[i-1][column]
        THEN df[i][out] = df[i-1][out]
        ELSE df[i][out] - df[i-1][out] \in {1, -1}

\* C2 as stated: after _determine_steps every pair of adjacent rows of the
\* whole table, a pair that straddles a cycle boundary included, has equal
\* indices when the source values are equal and indices that differ by
\* exactly 1 when they are not.
C2_AdjacentPairsWholeTable ==
    last_op = "AddSteps" =>
        AdjacentPairs(raw_data, "state", "step_index", 2..Len(raw_data))

SameCyclePairs(df) ==
    {i \in 2..Len(df) : df[i-1].cycle_number = df[i].cycle_number}

\* C2 amended: for any table, after _determine_steps every pair of
\* adjacent rows that belong to the same cycle has equal indices when the
\* source values are equal and indices that differ by exactly 1 when they
\* are not.
C2_AdjacentPairsSameCycle ==
    /\ last_op = "AddSteps" =>
          AdjacentPairs(raw_data, "state", "step_index", SameCyclePairs(raw_data))
    /\ last_op = "AddSubSteps" =>
          AdjacentPairs(raw_data, "method", "substep_index", SameCyclePairs(raw_data))

\* a table whose cycle numbers go down again, with a change of state inside
\* a cycle after the index of that cycle was reset
C2_Witness ==
    /\ ~NonDecreasingCycles(raw_data)
    /\ last_op = "AddSubSteps"
    /\ \E i \in SameCyclePairs(raw_data) :
          /\ raw_data[i].state /= raw_data[i-1].state
          /\ raw_data[i].step_index >= 2
          /\ raw_data[i].cycle_number = 1
    /\ \E i \in 2..Len(raw_data) :
          /\ raw_data[i].cycle_number /= raw_data[i-1].cycle_number
          /\ raw_data[i].state = raw_data[i-1].state
          /\ raw_data[i].step_index /= raw_data[i-1].step_index

-----------------------------------------------------------------------------
(* Properties of the control-method classifier *)

\* C3: every (cycle_number, step_index) group of duration d (last minus
\* first test_time), n rows and the state of its first row is labelled
\* short_rest if d < threshold and rest; short_nonrest if d < threshold,
\* not rest, n < 5; pulse if d < threshold, not rest, n >= 5; rest if
\* d >= threshold and rest; unknown if d >= threshold, not rest, n < 5;
\* and only otherwise each row gets one of constant_voltage,
\* constant_current, other.
C3_MethodDecision ==
    last_op = "AddMethod" =>
        \A i \in Rows(raw_data) :
            LET g == StepGroup(raw_data, i)
                d == raw_data[Max(g)].test_time - raw_data[Min(g)].test_time
                n == Cardinality(g)
                rest == raw_data[Min(g)].state = "resting"
                short == d < short_period_threshold
                m == raw_data[i].method
            IN  /\ (short /\ rest) => m = "short_rest"
                /\ (short /\ ~rest /\ n < 5) => m = "short_nonrest"
                /\ (short /\ ~rest /\ n >= 5) => m = "pulse"
                /\ (~short /\ rest) => m = "rest"
                /\ (~short /\ ~rest /\ n < 5) => m = "unknown"
                /\ (~short /\ ~rest /\ n >= 5) =>
                       m \in {"constant_voltage", "constant_current", "other"}

\* a table holding a group of exactly the threshold's duration with fewer
\* than 5 rows (unknown) next to a short rest
C3_Witness ==
    /\ last_op = "AddMethod"
    /\ \E i, j \in Rows(raw_data) :
          /\ raw_data[i].method = "unknown"
          /\ GroupDuration(raw_data, i) = short_period_threshold
          /\ raw_data[j].method = "short_rest"

-----------------------------------------------------------------------------
(* Properties of the integrals *)

\* the row of the cycle table that holds cycle number c
StatsRow(c) ==
    cycle_stats[CHOOSE i \in Rows(cycle_stats) : cycle_stats[i].cycle_number = Num(c)]

CycleNumberOf(k) == raw_data[CycleStarts(raw_data)[k]].cycle_number

CyclesOfTable == 1..Len(CycleStarts(raw_data))

\* C4: for every cycle that is not skipped, with max_charge =
\* max(capacity_change) and max_discharge = -min(capacity_change), the
\* cycle starts charged iff max_discharge > max_charge (a tie is starting
\* discharged); then capacity_discharge = max_discharge, capacity_charge =
\* last + max_discharge, energy_discharge = -min(energy_change),
\* energy_charge = last energy + energy_discharge; otherwise
\* capacity_charge = max_charge, capacity_discharge = max_charge - last,
\* energy_charge = max(energy_change), energy_discharge = energy_charge -
\* last energy; all divided by 3600, and max_cycled_capacity =
\* (max_charge + max_discharge) / 3600.
C4_SummaryValues ==
    last_op = "CapacityPerCycle" =>
        \A k \in CyclesOfTable :
            ~Skipped(raw_data, k) =>
                LET cap == CapacityChange(raw_data, columns, summarizer.reuse_integrals, k)
                    eng == EnergyChange(raw_data, columns, summarizer.reuse_integrals, k)
                    max_charge == CHOOSE m \in {cap[j] : j \in DOMAIN cap} :
                                      \A j \in DOMAIN cap : cap[j] <= m
                    min_cap == CHOOSE m \in {cap[j] : j \in DOMAIN cap} :
                                      \A j \in DOMAIN cap : cap[j] >= m
                    max_eng == CHOOSE m \in {eng[j] : j \in DOMAIN eng} :
                                      \A j \in DOMAIN eng : eng[j] <= m
                    min_eng == CHOOSE m \in {eng[j] : j \in DOMAIN eng} :
                                      \A j \in DOMAIN eng : eng[j] >= m
                    max_discharge == -min_cap
                    row == StatsRow(CycleNumberOf(k))
                IN  /\ row.max_cycled_capacity = Num((max_charge + max_discharge) \div 3600)
                    /\ IF max_discharge > max_charge
                       THEN /\ row.capacity_discharge = Num(max_discharge \div 3600)
                            /\ row.capacity_charge = Num((cap[Len(cap)] + max_discharge) \div 3600)
                            /\ row.energy_discharge = Num((-min_eng) \div 3600)
                            /\ row.energy_charge = Num((eng[Len(eng)] - min_eng) \div 3600)
                       ELSE /\ row.capacity_charge = Num(max_charge \div 3600)
                            /\ row.capacity_discharge = Num((max_charge - cap[Len(cap)]) \div 3600)
                            /\ row.energy_charge = Num(max_eng \div 3600)
                            /\ row.energy_discharge = Num((max_eng - eng[Len(eng)]) \div 3600)

\* a cycle in which the largest charge and the largest discharge are equal
\* and not zero, and which ends away from where it started
C4_Witness ==
    /\ last_op = "CapacityPerCycle"
    /\ \E k \in CyclesOfTable :
          /\ ~Skipped(raw_data, k)
          /\ LET cap == CapacityChange(raw_data, columns, summarizer.reuse_integrals, k)
             IN  /\ SeqMax(cap) = -SeqMin(cap)
                 /\ SeqMax(cap) > 0
                 /\ cap[Len(cap)] /= 0

\* the trapezoidal integral of y over test_time from row a to row b
RECURSIVE IntegralBetween(_, _, _, _)
IntegralBetween(df, y, a, b) ==
    IF b <= a THEN 0
    ELSE IntegralBetween(df, y, a, b - 1)
            + ((df[b].test_time - df[b-1].test_time) * (y[b] + y[b-1])) \div 2

FirstRowOfCycle(df, i) ==
    CHOOSE f \in Rows(df) :
        /\ df[f].cycle_number = df[i].cycle_number
        /\ \A j \in 1..(f-1) : df[j].cycle_number /= df[i].cycle_number

\* C5: after StateOfCharge.enhance, on a table of any number of cycles
\* (cycle_number non-decreasing), cycled_charge of row i is the cumulative
\* trapezoidal integral of current over test_time from the first row of
\* the cycle of row i to row i, divided by 3600, and cycled_energy is the
\* same integral of current x voltage.
C5_RunningIntegrals ==
    ("cycled_charge" \in columns /\ NonDecreasingCycles(raw_data)) =>
        \A i \in Rows(raw_data) :
            LET first == FirstRowOfCycle(raw_data, i)
                current == [j \in Rows(raw_data) |-> raw_data[j].current]
                power == [j \in Rows(raw_data) |->
                             raw_data[j].current * raw_data[j].voltage]
            IN  /\ raw_data[i].cycled_charge =
                       Num(IntegralBetween(raw_data, current, first, i) \div 3600)
                /\ raw_data[i].cycled_energy =
                       Num(IntegralBetween(raw_data, power, first, i) \div 3600)

\* a table of two cycles where charge was moved in the first cycle and a
\* later row of the second cycle holds a running integral of its own
C5_Witness ==
    /\ "cycled_charge" \in columns
    /\ \E i, j \in Rows(raw_data) :
          /\ raw_data[i].cycle_number = 0
          /\ raw_data[i].cycled_charge \notin {NaN, Num(0)}
          /\ raw_data[j].cycle_number = 1
          /\ raw_data[j-1].cycle_number = 1
          /\ raw_data[j].cycled_charge \notin {NaN, Num(0), raw_data[i].cycled_charge}
          /\ raw_data[j].cycled_energy \notin {NaN, Num(0)}

\* C6: after StateOfCharge.enhance the first row of every cycle has
\* cycled_charge = cycled_energy = CE_charge = 0 and no row is left NaN in
\* any of the three columns.
C6_FirstRowsZero ==
    "cycled_charge" \in columns =>
        \A i \in Rows(raw_data) :
            /\ \A c \in {"cycled_charge", "cycled_energy", "CE_charge"} :
                  ~IsNaN(raw_data[i][c])
            /\ i = FirstRowOfCycle(raw_data, i) =>
                  \A c \in {"cycled_charge", "cycled_energy", "CE_charge"} :
                      raw_data[i][c] = Num(0)

\* the turn of the loop over the first cycle writes a running integral
\* other than 0 on the first row of the second cycle
C6_Witness ==
    /\ last_op = "StateOfCharge"
    /\ Len(CycleStarts(raw_data)) >= 2
    /\ LET next_first == CycleStarts(raw_data)[2]
           pass == StateOfChargePass(raw_data, <<1, 2>>, 1)
       IN  /\ pass[next_first].cycled_charge /= Num(0)
           /\ pass[next_first].CE_charge /= Num(0)
           /\ pass[next_first].cycled_energy /= Num(0)
           /\ raw_data[next_first].cycled_charge = Num(0)

\* C7: once StateOfCharge.enhance has run, CapacityPerCycle with
\* reuse_integrals = True writes for every cycle the same five values as
\* CapacityPerCycle with reuse_integrals = False computes from current,
\* voltage and test_time.
C7_ReuseEqualsDirect ==
    (/\ last_op = "CapacityPerCycle"
     /\ summarizer.reuse_integrals
     /\ {"cycled_charge", "cycled_energy"} \subseteq columns) =>
        cycle_stats = Summarize(raw_data, columns, FALSE, cycle_stats)

AllUndefined(row) == \A j \in 1..5 : IsNaN(row[column_names[j]])
AllDefined(row) == \A j \in 1..5 : ~IsNaN(row[column_names[j]])

\* C8: after CapacityPerCycle a cycle of 1 or 2 rows has its five summary
\* values undefined (NaN) wherever it sits in the table, and the cycles of
\* 3 rows and more are processed.
C8_ShortCyclesUndefined ==
    last_op = "CapacityPerCycle" =>
        \A k \in CyclesOfTable :
            LET rows == Cardinality(CycleGroup(raw_data, CycleStarts(raw_data)[k]))
            IN  /\ rows < 3 => AllUndefined(StatsRow(CycleNumberOf(k)))
                /\ rows >= 3 => AllDefined(StatsRow(CycleNumberOf(k)))

\* C9: after add_summaries with CapacityPerCycle the cycle table has
\* exactly one row per distinct cycle_number of the raw table, and the
\* values computed for a cycle are in the row whose cycle_number is the
\* number of that cycle.
C9_RowPerCycle ==
    last_op = "CapacityPerCycle" =>
        /\ Len(cycle_stats) = Len(CycleStarts(raw_data))
        /\ \A k \in CyclesOfTable :
              /\ Cardinality({i \in Rows(cycle_stats) :
                                 cycle_stats[i].cycle_number = Num(CycleNumberOf(k))}) = 1
              /\ ~Skipped(raw_data, k) =>
                    LET v == CycleSummary(
                                CapacityChange(raw_data, columns, summarizer.reuse_integrals, k),
                                EnergyChange(raw_data, columns, summarizer.reuse_integrals, k))
                        row == StatsRow(CycleNumberOf(k))
                    IN  \A j \in 1..5 : row[column_names[j]] = Num(v[column_names[j]])

\* C10: for a cycle that is not skipped and whose capacity_change ends at
\* 0, capacity_charge equals capacity_discharge, whichever way the cycle
\* starts.
C10_ZeroNetCharge ==
    last_op = "CapacityPerCycle" =>
        \A k \in CyclesOfTable :
            (/\ ~Skipped(raw_data, k)
             /\ LET cap == CapacityChange(raw_data, columns, summarizer.reuse_integrals, k)
                IN  cap[Len(cap)] = 0) =>
                StatsRow(CycleNumberOf(k)).capacity_charge
                    = StatsRow(CycleNumberOf(k)).capacity_discharge

\* a cycle that first discharges and then takes the same charge back
C10_Witness ==
    /\ last_op = "CapacityPerCycle"
    /\ \E k \in CyclesOfTable :
          /\ ~Skipped(raw_data, k)
          /\ LET cap == CapacityChange(raw_data, columns, summarizer.reuse_integrals, k)
             IN  /\ cap[Len(cap)] = 0
                 /\ -SeqMin(cap) > SeqMax(cap)
          /\ StatsRow(CycleNumberOf(k)).capacity_charge /= Num(0)


\* the cycles CapacityPerCycle has summarized whose capacity_change ends at 0
ZeroNetCycles ==
    {k \in CyclesOfTable :
        /\ ~Skipped(raw_data, k)
        /\ LET cap == CapacityChange(raw_data, columns, summarizer.reuse_integrals, k)
           IN  cap[Len(cap)] = 0}

\* C11 as stated: for a cycle that is not skipped and whose capacity_change
\* ends at 0, max_cycled_capacity equals capacity_charge +
\* capacity_discharge, whichever way the cycle starts.
C11_MaxCycledIsSum ==
    last_op = "CapacityPerCycle" =>
        \A k \in ZeroNetCycles :
            LET row == StatsRow(CycleNumberOf(k))
            IN  Value(row.max_cycled_capacity)
                    = Value(row.capacity_charge) + Value(row.capacity_discharge)

\* C11 amended: for such a cycle capacity_charge = capacity_discharge =
\* the larger of max_charge and max_discharge (over 3600), while
\* max_cycled_capacity = (max_charge + max_discharge) / 3600; so
\* max_cycled_capacity is at most capacity_charge + capacity_discharge and
\* equals it exactly when max_charge = max_discharge.
C11_MaxCycledIsExcursion ==
    last_op = "CapacityPerCycle" =>
        \A k \in ZeroNetCycles :
            LET cap == CapacityChange(raw_data, columns, summarizer.reuse_integrals, k)
                max_charge == SeqMax(cap)
                max_discharge == -SeqMin(cap)
                larger == IF max_discharge > max_charge THEN max_discharge ELSE max_charge
                row == StatsRow(CycleNumberOf(k))
                total == Value(row.capacity_charge) + Value(row.capacity_discharge)
            IN  /\ row.capacity_charge = Num(larger \div 3600)
                /\ row.capacity_discharge = Num(larger \div 3600)
                /\ row.max_cycled_capacity = Num((max_charge + max_discharge) \div 3600)
                /\ Value(row.max_cycled_capacity) <= total
                /\ Value(row.max_cycled_capacity) = total <=> max_charge = max_discharge

\* a cycle that discharges and takes the same charge back: the excursion
\* is half the sum of the two capacities
C11_Witness ==
    /\ last_op = "CapacityPerCycle"
    /\ \E k \in ZeroNetCycles :
          LET cap == CapacityChange(raw_data, columns, summarizer.reuse_integrals, k)
              row == StatsRow(CycleNumberOf(k))
          IN  /\ SeqMax(cap) = 0
              /\ SeqMin(cap) < 0
              /\ Value(row.max_cycled_capacity) = Value(row.capacity_charge)
              /\ Value(row.max_cycled_capacity) > 0

\* C12: after StateOfCharge.enhance CE_charge of row i is the cumulative
\* trapezoidal integral, from the first row of the cycle of row i to row i
\* and over 3600, of the current in which the samples above 0 are
\* multiplied by coulombic_efficiency and the others are as they were; the
\* current column holds the values it held before; with
\* coulombic_efficiency = 1 CE_charge equals cycled_charge on every row.
C12_EfficiencyAdjustedCharge ==
    (last_op = "StateOfCharge" /\ NonDecreasingCycles(raw_data)) =>
        LET adjusted == [j \in Rows(raw_data) |->
                            IF raw_data[j].current > 0
                            THEN (raw_data[j].current * coulombic_efficiency[1])
                                     \div coulombic_efficiency[2]
                            ELSE raw_data[j].current]
        IN  /\ \A i \in Rows(raw_data) :
                  /\ raw_data[i].CE_charge =
                         Num(IntegralBetween(raw_data, adjusted,
                                             FirstRowOfCycle(raw_data, i), i) \div 3600)
                  /\ raw_data[i].current \in Currents
            /\ coulombic_efficiency = <<1, 1>> =>
                  \A i \in Rows(raw_data) : raw_data[i].CE_charge = raw_data[i].cycled_charge

\* an efficiency of 1/2 on a cycle that charges and discharges: CE_charge
\* has left cycled_charge
C12_Witness ==
    /\ last_op = "StateOfCharge"
    /\ coulombic_efficiency = <<1, 2>>
    /\ \E i, j, l \in Rows(raw_data) :
          /\ raw_data[i].cycle_number = raw_data[l].cycle_number
          /\ raw_data[j].cycle_number = raw_data[l].cycle_number
          /\ i < l /\ j < l
          /\ raw_data[i].current > 0
          /\ raw_data[j].current < 0
          /\ raw_data[l].CE_charge /= raw_data[l].cycled_charge

-----------------------------------------------------------------------------
(* Properties of the state detection *)

\* C13: AddState labels every row from the current of that row alone:
\* rest when |current| <= rest_curr_threshold (the threshold itself is a
\* rest), otherwise charging when current > 0, otherwise discharging;
\* unknown is never produced.
C13_StateFromCurrent ==
    last_op = "AddState" =>
        \A i \in Rows(raw_data) :
            LET c == raw_data[i].current
                s == raw_data[i].state
            IN  /\ s \in {"resting", "charging", "discharging"}
                /\ s = "resting" <=> (-rest_curr_threshold <= c /\ c <= rest_curr_threshold)
                /\ s = "charging" <=> c > rest_curr_threshold
                /\ s = "discharging" <=> c < -rest_curr_threshold
                /\ \A j \in Rows(raw_data) :
                      raw_data[j].current = c => raw_data[j].state = s

\* a table with a current on the threshold, one on its negative, one above
\* and one below, each labelled
C13_Witness ==
    /\ last_op = "AddState"
    /\ \E i, j, k, l \in Rows(raw_data) :
          /\ raw_data[i].current = rest_curr_threshold /\ raw_data[i].state = "resting"
          /\ raw_data[j].current = -rest_curr_threshold /\ raw_data[j].state = "resting"
          /\ raw_data[k].current > rest_curr_threshold /\ raw_data[k].state = "charging"
          /\ raw_data[l].current < -rest_curr_threshold /\ raw_data[l].state = "discharging"

\* C14: in the sub-segmentation of a group of n rows the boundaries
\* [0] + sorted distinct peaks + [n] split the rows into consecutive
\* segments that hold each row exactly once, the list of labels has n
\* entries in time order, and the assertion on its length never fires.
C14_SegmentsCoverGroup ==
    /\ last_op /= "AssertionError"
    /\ last_op = "AddMethod" =>
          \A i \in SegmentedRows(raw_data) :
              LET extrema == Extrema(raw_data, sub_segments.extrema, i)
                  n == GroupSize(raw_data, i)
                  q == PositionInGroup(raw_data, i)
                  holding == {k \in 1..(Len(extrema) - 1) :
                                 extrema[k] <= q /\ q < extrema[k + 1]}
              IN  /\ extrema[1] = 0 /\ extrema[Len(extrema)] = n
                  /\ \A k \in 1..(Len(extrema) - 1) : extrema[k] < extrema[k + 1]
                  /\ Cardinality(holding) = 1
                  /\ Len(Methods(raw_data, sub_segments.extrema, sub_segments.label, i)) = n
                  /\ raw_data[i].method =
                        sub_segments.label[SegmentStart(raw_data, sub_segments.extrema, i)]

\* a group split by a peak into two sub-segments with different labels
C14_Witness ==
    /\ last_op = "AddMethod"
    /\ \E i, j \in SegmentedRows(raw_data) :
          /\ j \in StepGroup(raw_data, i)
          /\ i < j
          /\ j \in sub_segments.extrema
          /\ raw_data[i].method /= raw_data[j].method
          /\ raw_data[j - 1].method = raw_data[i].method

\* C15: after AddMethod.enhance returns on a table that has state and
\* step_index, every row has a method and it is a value of ControlMethod.
C15_MethodInEnumeration ==
    last_op = "AddMethod" =>
        /\ "method" \in columns
        /\ \A i \in Rows(raw_data) :
              /\ "method" \in DOMAIN raw_data[i]
              /\ raw_data[i].method \in ControlMethod

\* a table with a long rest and a short step that is not a rest, each
\* labelled as such
C15_Witness ==
    /\ last_op = "AddMethod"
    /\ \E i, j \in Rows(raw_data) :
          /\ raw_data[i].method = "rest"
          /\ raw_data[j].method = "short_nonrest"


-----------------------------------------------------------------------------
(* Properties of the schemas *)

\* whether a declared field or an entry of extra_columns of that name is
\* marked required
MarkedRequired(c) ==
    \/ \E k \in DOMAIN schema.fields :
          schema.fields[k].name = c /\ schema.fields[k].info.required
    \/ \E k \in DOMAIN schema.extra_columns :
          schema.extra_columns[k].name = c /\ schema.extra_columns[k].info.required

\* the description validate_dataframe goes by: the entry of extra_columns
\* when there is one of that name, the declared field otherwise
Effective(c) ==
    IF c \in Keys(schema.extra_columns) THEN Lookup(schema.extra_columns, c)
    ELSE Lookup(schema.fields, c)

AllColumns == Keys(schema.fields) \cup Keys(schema.extra_columns)

\* the place of column c in the order validate_dataframe goes through
\* the columns: the declared fields, then the new names of extra_columns
PlaceOf(c) ==
    IF c \in Keys(schema.fields)
    THEN CHOOSE k \in DOMAIN schema.fields : schema.fields[k].name = c
    ELSE Len(schema.fields)
           + Cardinality({k \in DOMAIN schema.extra_columns :
                 /\ schema.extra_columns[k].name \notin Keys(schema.fields)
                 /\ k <= CHOOSE j \in DOMAIN schema.extra_columns :
                             schema.extra_columns[j].name = c})

Undeclared == DOMAIN dataframe \ AllColumns

\* the error is raised by a check that comes before the check of column c
RaisedBefore(c) ==
    \/ validation.error.kind = "extra columns"
    \/ \E b \in AllColumns : validation.error.columns = {b} /\ PlaceOf(b) < PlaceOf(c)

\* C16 as stated: whenever a column marked required, declared or in
\* extra_columns, is absent from the table, validate_dataframe fails with
\* an error that names it, whatever else is wrong; and it never fails
\* because a column that is not required is absent.
C16_MissingRequiredNamed ==
    last_op = "validate_dataframe" =>
        /\ \A c \in AllColumns :
              (MarkedRequired(c) /\ c \notin DOMAIN dataframe) =>
                  /\ validation.error.kind = "missing a required column"
                  /\ c \in validation.error.columns
        /\ validation.error.kind = "missing a required column" =>
              \A c \in validation.error.columns : MarkedRequired(c)

\* C16 amended: whenever a column whose description in force (the entry of
\* extra_columns, if any, else the declared field) is required is absent,
\* validate_dataframe fails; the error is the one of the first check that
\* fails, so it names the column unless the extra-column check or the
\* check of an earlier column fails; a missing-column error always names
\* an absent column that is required.
C16_MissingRequiredFails ==
    last_op = "validate_dataframe" =>
        /\ \A c \in AllColumns :
              (Effective(c).required /\ c \notin DOMAIN dataframe) =>
                  /\ validation.error /= NoError
                  /\ \/ validation.error = ValueError("missing a required column", {c})
                     \/ RaisedBefore(c)
        /\ validation.error.kind = "missing a required column" =>
              \A c \in validation.error.columns :
                  c \notin DOMAIN dataframe /\ Effective(c).required

\* a table without test_time and with an ill-typed state column: the error
\* is about state, which comes first
C16_Witness ==
    /\ last_op = "validate_dataframe"
    /\ "test_time" \notin DOMAIN dataframe
    /\ Effective("test_time").required
    /\ "state" \in DOMAIN dataframe
    /\ validation.error = ValueError("values not in enumeration", {"state"})

\* the table without the columns no part of the schema describes
DeclaredPart == [c \in DOMAIN dataframe \cap AllColumns |-> dataframe[c]]

TypedAs(c, type) ==
    \/ \E k \in DOMAIN schema.fields :
          schema.fields[k].name = c /\ schema.fields[k].info.type = type
    \/ \E k \in DOMAIN schema.extra_columns :
          schema.extra_columns[k].name = c /\ schema.extra_columns[k].info.type = type

\* the data of the present column c is of the wrong sort for the type
WrongFor(c, type) ==
    CASE type = "float" -> dataframe[c] \notin {"float_increasing", "float_constant",
                                                "float_decreasing"}
      [] type = "integer" -> dataframe[c] \notin {"integer_increasing", "integer_constant",
                                                  "integer_decreasing"}
      [] type = "state" ->
            \/ dataframe[c] \notin {"states", "not_states", "methods"}
            \/ \E i \in DOMAIN ColumnValues(dataframe[c]) :
                  ColumnValues(dataframe[c])[i] \notin ChargingState
      [] type = "control" ->
            \/ dataframe[c] \notin {"states", "not_states", "methods"}
            \/ \E i \in DOMAIN ColumnValues(dataframe[c]) :
                  ColumnValues(dataframe[c])[i] \notin ControlMethod
      [] OTHER -> FALSE

\* the error validate_dataframe raises about data of the wrong sort
WrongDataError(c, type) ==
    CASE type = "float" -> ValueError("not a floating point number", {c})
      [] type = "integer" -> ValueError("not an integer", {c})
      [] OTHER -> ValueError("values not in enumeration", {c})

WrongDataErrorKinds ==
    {"not a floating point number", "not an integer", "values not in enumeration"}

\* C18 as stated: for every schema column present in the table,
\* validate_dataframe fails with an error naming the column when the column
\* is typed FLOAT and its data is not floating point, typed INTEGER and its
\* data is not integer, typed STATE or CONTROL and a value lies outside
\* ChargingState or ControlMethod.
C18_WrongTypeNamed ==
    last_op = "validate_dataframe" =>
        \A c \in AllColumns \cap DOMAIN dataframe :
            \A type \in {"float", "integer", "state", "control"} :
                (TypedAs(c, type) /\ WrongFor(c, type)) =>
                    /\ validation.error /= NoError
                    /\ c \in validation.error.columns

\* C18 amended: for every present column whose description in force has
\* one of these types and whose data is of the wrong sort for it,
\* validate_dataframe fails; the error is the one of the first check that
\* fails, so it names the column unless the extra-column check or the check
\* of an earlier column fails; and an error about the sort of data always
\* names a present column whose data is wrong for its type in force.
C18_WrongTypeFails ==
    last_op = "validate_dataframe" =>
        /\ \A c \in AllColumns \cap DOMAIN dataframe :
              WrongFor(c, Effective(c).type) =>
                  /\ validation.error /= NoError
                  /\ \/ validation.error = WrongDataError(c, Effective(c).type)
                     \/ RaisedBefore(c)
        /\ validation.error.kind \in WrongDataErrorKinds =>
              \E c \in AllColumns \cap DOMAIN dataframe :
                  /\ WrongFor(c, Effective(c).type)
                  /\ validation.error = WrongDataError(c, Effective(c).type)

\* a table whose state column holds a value outside ChargingState and whose
\* cycle_number column holds floats: the error is about state only
C18_Witness ==
    /\ last_op = "validate_dataframe"
    /\ {"state", "cycle_number"} \subseteq DOMAIN dataframe
    /\ WrongFor("state", "state") /\ WrongFor("cycle_number", "integer")
    /\ validation.error = ValueError("values not in enumeration", {"state"})

\* some row of the present column c is smaller than the row before it
Decreases(c) ==
    \E i \in DOMAIN ColumnValues(dataframe[c]) :
        /\ i > 1
        /\ DtypeKind(dataframe[c]) /= "O"
        /\ ColumnValues(dataframe[c])[i] < ColumnValues(dataframe[c])[i - 1]

\* C19 as stated: validate_dataframe fails whenever a schema column that is
\* declared monotonic, of whatever data type, declared by the class or
\* added with add_column, is present and has a row smaller than the row
\* before it; and it raises no error about monotonicity for a column whose
\* rows never decrease, equal consecutive rows included.
C19_MonotonicRejected ==
    last_op = "validate_dataframe" =>
        /\ \A c \in AllColumns \cap DOMAIN dataframe :
              (Effective(c).monotonic /\ Decreases(c)) => validation.error /= NoError
        /\ validation.error.kind = "not monotonically increasing" =>
              \A c \in validation.error.columns : Decreases(c)

-----------------------------------------------------------------------------
(* Properties of the warnings, the log and the frame of the stages *)

\* the cycles CapacityPerCycle has summarized whose largest discharge and
\* largest charge are within 1 % of each other, as np.isclose has it
AmbiguousCycles ==
    {k \in CyclesOfTable :
        /\ ~Skipped(raw_data, k)
        /\ LET cap == CapacityChange(raw_data, columns, summarizer.reuse_integrals, k)
           IN  100 * Abs(-SeqMin(cap) - SeqMax(cap)) <= Abs(SeqMax(cap))}

\* C21: when max_discharge and max_charge of a cycle are within 1 % of
\* each other CapacityPerCycle warns about that cycle and goes on: the five
\* values of the cycle are written by the starts_charged rule (charged iff
\* max_discharge > max_charge), every later cycle is processed, and no
\* other cycle is warned about.
C21_AmbiguousCycleWarned ==
    last_op = "CapacityPerCycle" =>
        /\ \A k \in AmbiguousCycles :
              LET cap == CapacityChange(raw_data, columns, summarizer.reuse_integrals, k)
                  eng == EnergyChange(raw_data, columns, summarizer.reuse_integrals, k)
                  max_charge == SeqMax(cap)
                  max_discharge == -SeqMin(cap)
                  row == StatsRow(CycleNumberOf(k))
              IN  /\ \E w \in DOMAIN warnings :
                        warnings[w] = [cyc |-> k - 1, max_discharge |-> max_discharge,
                                       max_charge |-> max_charge]
                  /\ row.max_cycled_capacity = Num((max_charge + max_discharge) \div 3600)
                  /\ IF max_discharge > max_charge
                     THEN /\ row.capacity_discharge = Num(max_discharge \div 3600)
                          /\ row.capacity_charge = Num((cap[Len(cap)] + max_discharge) \div 3600)
                          /\ row.energy_discharge = Num((-SeqMin(eng)) \div 3600)
                          /\ row.energy_charge = Num((eng[Len(eng)] - SeqMin(eng)) \div 3600)
                     ELSE /\ row.capacity_charge = Num(max_charge \div 3600)
                          /\ row.capacity_discharge = Num((max_charge - cap[Len(cap)]) \div 3600)
                          /\ row.energy_charge = Num(SeqMax(eng) \div 3600)
                          /\ row.energy_discharge = Num((SeqMax(eng) - eng[Len(eng)]) \div 3600)
                  /\ \A later \in CyclesOfTable :
                        (later > k /\ ~Skipped(raw_data, later)) =>
                            AllDefined(StatsRow(CycleNumberOf(later)))
        /\ Len(warnings) = Cardinality(AmbiguousCycles)
        /\ \A w \in DOMAIN warnings : warnings[w].cyc + 1 \in AmbiguousCycles

\* a first cycle whose largest discharge is 1 % above its largest charge,
\* so that it counts as starting charged, followed by a cycle of three rows
C21_Witness ==
    /\ last_op = "CapacityPerCycle"
    /\ 1 \in AmbiguousCycles
    /\ Len(CycleStarts(raw_data)) = 2
    /\ ~Skipped(raw_data, 2)
    /\ warnings[1].cyc = 0
    /\ warnings[1].max_discharge > warnings[1].max_charge
    /\ warnings[1].max_charge > 0
    /\ AllDefined(StatsRow(1))

\* the cycles CapacityPerCycle passes over
SkippedCycles == {k \in CyclesOfTable : Skipped(raw_data, k)}

\* C22: whenever CapacityPerCycle skips a cycle because it has fewer than
\* 3 rows, it gives a log entry about that cycle: the log of the call holds
\* at least one entry for each cycle it skipped.
C22_SkipLogged ==
    last_op = "CapacityPerCycle" => Len(log) >= Cardinality(SkippedCycles)

\* the columns of the raw table a stage writes
OutputColumns(op) ==
    CASE op = "AddState" -> {"state"}
      [] op = "AddSteps" -> {"step_index"}
      [] op \in {"AddMethod", "AssertionError"} -> {"method"}
      [] op = "AddSubSteps" -> {"substep_index"}
      [] op = "StateOfCharge" -> {"cycled_charge", "cycled_energy", "CE_charge"}
      [] OTHER -> {}

\* what one run of a stage leaves alone in the raw table
KeepsTable ==
    /\ Len(raw_data') = Len(raw_data)
    /\ \A i \in Rows(raw_data) :
          /\ DOMAIN raw_data'[i] = DOMAIN raw_data[i] \cup OutputColumns(last_op')
          /\ \A c \in DOMAIN raw_data[i] \ OutputColumns(last_op') :
                raw_data'[i][c] = raw_data[i][c]

-----------------------------------------------------------------------------
(* Properties of the streaming writer and of the cycle iterator *)

\* test_time of the rows the table gained since __enter__, in their order
StoredTimes ==
    [i \in 1..(Len(store.rows) - context.before) |->
        Value(store.rows[context.before + i].test_time)]

\* test_time of the rows given to write_row since __enter__, in call order
PassedTimes == [i \in 1..Len(context.rows) |-> context.rows[i].test_time]

\* write_row gave 0 and left a buffer shorter than buffer_size, or gave the
\* number of rows the table gained and left the buffer empty
WriteRowReturn ==
    /\ ~returned.raised
    /\ \/ /\ returned.written = 0
          /\ returned.stored = 0
          /\ Len(writer.write_buffer) \in 1..(writer.buffer_size - 1)
       \/ /\ returned.written > 0
          /\ returned.stored = returned.written
          /\ writer.write_buffer = <<>>

\* the context was left with every row stored once, in call order
ExitStoredAll ==
    /\ ~returned.raised
    /\ StoredTimes = PassedTimes

\* every row given since __enter__ has every column of the table
WholeRows ==
    \A i \in 1..Len(context.rows) : store.names \subseteq DOMAIN context.rows[i]

\* C24: for any sequence of write_row calls inside a context and any
\* buffer_size >= 1, once the context is left every row passed is in the
\* raw_data table exactly once and in call order; write_row returns 0 while
\* the buffer holds fewer than buffer_size rows and otherwise the number of
\* rows flushed, after which the buffer is empty.
C24_RowsStoredOnce ==
    /\ last_op = "write_row" => WriteRowReturn
    /\ last_op = "__exit__" => ExitStoredAll

\* C24, for rows that have every column of the table: the same, whether the
\* table was made in this context or found in the file, and whether or not
\* the rows carry further keys
C24_WholeRowsStoredOnce ==
    WholeRows => C24_RowsStoredOnce

C24_Witness ==
    /\ last_op = "__exit__"
    /\ WholeRows
    /\ writer.buffer_size = 2
    /\ Len(context.rows) = 3
    /\ context.before = 1
    /\ \E i \in 1..3 : "voltage" \in DOMAIN context.rows[i]

\* the rows of the table of each distinct cycle_number, in the order of the
\* cycle numbers and each in the order of the table
FramePerCycle(rows) ==
    LET cycles == SortedSeq({Value(rows[i].cycle_number) : i \in 1..Len(rows)})
    IN  [k \in 1..Len(cycles) |->
            SelectSeq(rows, LAMBDA row : row.cycle_number = Num(cycles[k]))]

\* the chunks a table was read in, as sequences of cycle numbers
ChunkCycles ==
    LET chunks == TableIterator(store.rows, reader.chunksize)
    IN  [k \in 1..Len(chunks) |->
            [i \in 1..Len(chunks[k]) |-> Value(chunks[k][i].cycle_number)]]

\* C25: for a stored raw table with non-decreasing cycle_number,
\* iterate_cycles_from_file yields exactly one frame per distinct
\* cycle_number, in order, each with all and only the rows of that cycle in
\* their original order, however the rows are split into chunks.
C25_FramePerCycle ==
    last_op = "iterate_cycles_from_file" =>
        /\ ~frames.raised
        /\ frames.yielded = FramePerCycle(store.rows)

\* C25, for a stored table of at least one row
C25_FramePerCycleOfRows ==
    store.rows # <<>> => C25_FramePerCycle

\* a cycle over two chunks, two cycles inside one chunk, and a chunk that
\* ends where a cycle ends
C25_Witness ==
    /\ last_op = "iterate_cycles_from_file"
    /\ ChunkCycles = << <<0, 0>>, <<0, 1>>, <<3>> >>
    /\ Len(frames.yielded) = 3

-----------------------------------------------------------------------------
(* Properties of the integration range and of the cycle figures *)

\* the rows of the table that carry the cycle number of the k-th cycle
OwnRows(k) == {i \in Rows(raw_data) : raw_data[i].cycle_number = CycleNumberOf(k)}

\* the last row of the integration range the claim gives the k-th cycle: the
\* first row of the following cycle, or the last row of the table
RangeEnd(k) ==
    IF k < Len(CycleStarts(raw_data)) THEN Max(OwnRows(k)) + 1 ELSE Len(raw_data)

\* the running trapezoidal integral of y from the first row of the k-th
\* cycle to each later row of its range
ChangeOverRange(y, k) ==
    LET first == Min(OwnRows(k))
    IN  [j \in 1..(RangeEnd(k) - first) |->
            IntegralBetween(raw_data, y, first, first + j)]

TableCurrent == [j \in Rows(raw_data) |-> raw_data[j].current]

TablePower == [j \in Rows(raw_data) |-> raw_data[j].current * raw_data[j].voltage]

SummaryOfRow(row) ==
    [c \in {column_names[j] : j \in 1..5} |-> row[c]]

SummaryOfChanges(capacity_change, energy_change) ==
    LET v == CycleSummary(capacity_change, energy_change)
    IN  [c \in {column_names[j] : j \in 1..5} |-> Num(v[c])]

\* C26: with reuse_integrals = false, the figures of a cycle that is not
\* the last one are those of the integrals over the cycle's own rows plus
\* the first row of the following cycle, so that what was moved between the
\* last row of the cycle and the first row of the next counts for the
\* cycle; the range of the last cycle ends at the last row of the table.
C26_RangeReachesNextCycle ==
    (last_op = "CapacityPerCycle" /\ ~summarizer.reuse_integrals) =>
        \A k \in CyclesOfTable :
            RangeEnd(k) - Min(OwnRows(k)) + 1 >= 3 =>
                SummaryOfRow(StatsRow(CycleNumberOf(k))) =
                    SummaryOfChanges(ChangeOverRange(TableCurrent, k),
                                     ChangeOverRange(TablePower, k))

\* a first cycle of two rows, counted only because its range reaches the
\* first row of the second cycle, with charge moved between the two cycles
C26_Witness ==
    /\ last_op = "CapacityPerCycle"
    /\ ~summarizer.reuse_integrals
    /\ Len(CycleStarts(raw_data)) >= 2
    /\ Cardinality(OwnRows(1)) = 2
    /\ IntegralBetween(raw_data, TableCurrent, 2, 3) /= 0
    /\ StatsRow(CycleNumberOf(1)).capacity_charge /= NaN

-----------------------------------------------------------------------------
(* Properties of the ratio labels *)

RECURSIVE SetSum(_, _)
SetSum(f, S) ==
    IF S = {} THEN 0
    ELSE LET j == Min(S) IN f[j] + SetSum(f, S \ {j})

\* the rows of the sub-segment of row i: those of its group with no peak
\* between them and row i
SubSegmentOf(i) ==
    {j \in StepGroup(raw_data, i) :
        ~\E p \in sub_segments.extrema \cap StepGroup(raw_data, i) :
            (j < p /\ p <= i) \/ (i < p /\ p <= j)}

\* the variance of the group-normalized column over the sub-segment of row
\* i, as the mean square distance from the mean: a fraction, up to the
\* factor n^3 that current and voltage share
NormalizedVariance(col, i) ==
    LET group == StepGroup(raw_data, i)
        low == Min({raw_data[j][col] : j \in group})
        high == Max({raw_data[j][col] : j \in group})
        r == SubSegmentOf(i)
        n == Cardinality(r)
        shifted == [j \in r |-> raw_data[j][col] - low]
        total == SetSum(shifted, r)
        distance == [j \in r |-> (n * shifted[j] - total) * (n * shifted[j] - total)]
    IN  IF high = low THEN <<0, 1>>
        ELSE <<SetSum(distance, r), (high - low) * (high - low)>>

\* ratio > 0.66, for ratio = s_i / max(s_i + s_v, 1e-6)
RatioAbove(v_i, v_v) ==
    34 * 34 * v_i[1] * v_v[2] > 66 * 66 * v_v[1] * v_i[2]

\* ratio < 0.33; the ratio is 0 when neither s_i nor s_v is positive
RatioBelow(v_i, v_v) ==
    \/ v_i[1] = 0 /\ v_v[1] = 0
    \/ 67 * 67 * v_i[1] * v_v[2] < 33 * 33 * v_v[1] * v_i[2]

\* C27: each sub-segment produced by AddMethod is labelled from ratio =
\* s_i / max(s_i + s_v, 1e-6), s_i and s_v being the standard deviations of
\* the group-normalized current and voltage inside the sub-segment:
\* constant_voltage when ratio > 0.66, constant_current when ratio < 0.33,
\* other in between; a sub-segment in which neither varies, a one-row
\* sub-segment among them, is labelled constant_current.
C27_RatioLabels ==
    last_op = "AddMethod" =>
        \A i \in SegmentedRows(raw_data) :
            LET v_i == NormalizedVariance("current", i)
                v_v == NormalizedVariance("voltage", i)
                method == raw_data[i].method
            IN  /\ RatioAbove(v_i, v_v) => method = "constant_voltage"
                /\ RatioBelow(v_i, v_v) => method = "constant_current"
                /\ (~RatioAbove(v_i, v_v) /\ ~RatioBelow(v_i, v_v)) => method = "other"
                /\ (v_i[1] = 0 /\ v_v[1] = 0) => method = "constant_current"

\* a first sub-segment of one row, labelled constant_current, before a
\* sub-segment labelled constant_voltage and in a group whose current
\* varies more than within any one sub-segment
C27_Witness ==
    /\ last_op = "AddMethod"
    /\ sub_segments.extrema = {2}
    /\ raw_data[1].method = "constant_current"
    /\ raw_data[2].method = "constant_voltage"
    /\ \E i, j \in Rows(raw_data) : raw_data[i].voltage /= raw_data[j].voltage

\* the k-th cycle starts charged: max_discharge > max_charge
StartsCharged(k) ==
    LET cap == CapacityChange(raw_data, columns, summarizer.reuse_integrals, k)
    IN  -SeqMin(cap) > SeqMax(cap)

\* C28: for every cycle that is not skipped, whether it starts charged or
\* not, capacity_charge - capacity_discharge = capacity_change[last] / 3600
\* and energy_charge - energy_discharge = energy_change[last] / 3600: the
\* difference of the two figures is the net change over the range.
C28_DifferenceIsNetChange ==
    last_op = "CapacityPerCycle" =>
        \A k \in CyclesOfTable :
            ~Skipped(raw_data, k) =>
                LET cap == CapacityChange(raw_data, columns, summarizer.reuse_integrals, k)
                    eng == EnergyChange(raw_data, columns, summarizer.reuse_integrals, k)
                    row == StatsRow(CycleNumberOf(k))
                IN  /\ Value(row.capacity_charge) - Value(row.capacity_discharge)
                           = cap[Len(cap)] \div 3600
                    /\ Value(row.energy_charge) - Value(row.energy_discharge)
                           = eng[Len(eng)] \div 3600

\* a cycle that starts discharged and one that starts charged, both ending
\* away from where they started
C28_Witness ==
    /\ last_op = "CapacityPerCycle"
    /\ \E k, l \in CyclesOfTable :
          /\ ~Skipped(raw_data, k) /\ ~Skipped(raw_data, l)
          /\ StartsCharged(k) /\ ~StartsCharged(l)
          /\ StatsRow(CycleNumberOf(k)).capacity_charge
                 /= StatsRow(CycleNumberOf(k)).capacity_discharge
          /\ StatsRow(CycleNumberOf(l)).energy_charge
                 /= StatsRow(CycleNumberOf(l)).energy_discharge

\* C29: for every cycle that is not skipped, with either value of
\* reuse_integrals and for any current trace, capacity_charge and
\* capacity_discharge are both greater than or equal to 0.
C29_CapacitiesNotNegative ==
    last_op = "CapacityPerCycle" =>
        \A k \in CyclesOfTable :
            ~Skipped(raw_data, k) =>
                /\ Value(StatsRow(CycleNumberOf(k)).capacity_charge) >= 0
                /\ Value(StatsRow(CycleNumberOf(k)).capacity_discharge) >= 0

\* a cycle all of whose running charge is below 0, so that max_charge is
\* negative, integrated directly; and the same with the integrals reused
C29_Witness ==
    /\ last_op = "CapacityPerCycle"
    /\ ~summarizer.reuse_integrals
    /\ \E k \in CyclesOfTable :
          /\ ~Skipped(raw_data, k)
          /\ SeqMax(CapacityChange(raw_data, columns, FALSE, k)) < 0
          /\ StatsRow(CycleNumberOf(k)).capacity_charge = Num(0)
          /\ Value(StatsRow(CycleNumberOf(k)).capacity_discharge) > 0

-----------------------------------------------------------------------------
(* Properties of the sign convention *)

\* the current of row j as the claim has it enter CE_charge: times the
\* efficiency when the row is labelled charging, as it is when the row is
\* labelled discharging; a resting row is taken as StateOfCharge takes it
CurrentByState(j) ==
    LET c == raw_data[j].current
        scaled == (c * coulombic_efficiency[1]) \div coulombic_efficiency[2]
    IN  IF raw_data[j].state = "charging" THEN scaled
        ELSE IF raw_data[j].state = "discharging" THEN c
        ELSE IF c > 0 THEN scaled ELSE c

\* C30: the sign convention of AddState and of the Coulombic-efficiency
\* adjustment agree for any rest_curr_threshold >= 0: every sample AddState
\* labels charging enters CE_charge multiplied by coulombic_efficiency, and
\* every sample it labels discharging enters it unscaled.
C30_SignConventionsAgree ==
    ("state" \in columns /\ "CE_charge" \in columns) =>
        /\ \A i \in Rows(raw_data) :
              /\ raw_data[i].state = "charging" => raw_data[i].current > 0
              /\ raw_data[i].state = "discharging" => raw_data[i].current < 0
        /\ \A i \in Rows(raw_data) :
              raw_data[i].CE_charge =
                  Num(IntegralBetween(raw_data,
                                      [j \in Rows(raw_data) |-> CurrentByState(j)],
                                      FirstRowOfCycle(raw_data, i), i) \div 3600)

\* a threshold other than the default, an efficiency below 1, and a table
\* with a charging, a discharging and a resting row whose current is above 0
C30_Witness ==
    /\ "state" \in columns
    /\ "CE_charge" \in columns
    /\ add_state.rest_curr_threshold = 2
    /\ coulombic_efficiency = <<1, 2>>
    /\ \E i, j, k \in Rows(raw_data) :
          /\ raw_data[i].state = "charging"
          /\ raw_data[j].state = "discharging"
          /\ raw_data[k].state = "resting" /\ raw_data[k].current > 0
    /\ raw_data[Len(raw_data)].CE_charge /= raw_data[Len(raw_data)].cycled_charge

=============================================================================
